---- MODULE Spec2Model ----
(***************************************************************************)
(* Model of the PDF text-acquisition pipeline of rd-system:                *)
(*   src/src/services/excelGenerator.ts  (hybrid parsePDFBuffer, Gemini    *)
(*                                        Vision fallback, heuristics)     *)
(*   src/src/services/pdfParser.ts       (pdf-parse only parsePDFBuffer,   *)
(*                                        heuristics)                      *)
(*   src/src/services/aiExtractor.ts     (AIExtractor.handleGeminiError)   *)
(*   src/src/server.ts                   (POST /api/generate, /api/preview)*)
(*                                                                         *)
(* Every await of the source on an external call (readFile, pdf-parse, the *)
(* Gemini model, the workbook writer) is a position of pc: the step that   *)
(* makes the call and the step in which the await resumes or rejects are   *)
(* separate actions.                                                       *)
(*                                                                         *)
(* A JavaScript string is modelled as the sequence of its UTF-16 code      *)
(* units (naturals), so character classes are ranges of numbers exactly as *)
(* in the regular expressions of the source.  A comment after each literal *)
(* gives the text it encodes.                                              *)
(***************************************************************************)
EXTENDS Integers, Sequences, FiniteSets, TLC

VARIABLES
    pc,       \* position of the running call: where it is suspended or has ended
    entry,    \* which parsePDFBuffer runs: "server" (pdfParser.ts, the one
              \* server.ts imports) or "orchestrator" (excelGenerator.ts)
    buffer,   \* the uploaded PDF, as what pdf-parse can read out of it
    apiKey,   \* the API key variables of process.env that are set: a subset of
              \* EnvKeys
    data,     \* result of `await pdf(buffer)`: <<>> or <<record>>
    vision,   \* text returned by the Gemini Vision call: <<>> or <<text>>
    result,   \* the returned ParsedPDFContent: <<>> or <<record>>
    thrown,   \* message of the Error the call rejected with: <<>> or <<msg>>
    calls,    \* calls to pdf-parse and to the Gemini model made so far, in order
    cause,    \* the rejection of model.generateContent: <<>> or <<error>>
    fn,       \* pure-function specifications: the function applied
    arg,      \* its argument
    ret       \* its return value: <<>> before the call, <<value>> after

vars == <<pc, entry, buffer, apiKey, data, vision, result, thrown, calls, cause, fn, arg, ret>>

----------------------------------------------------------------------------
(* Bounds of the model *)

\* native text layers are concatenations of at most this many chunks
MaxNativeChunks == 3
\* Gemini Vision answers are concatenations of at most this many chunks
MaxVisionChunks == 2

----------------------------------------------------------------------------
(* Characters (UTF-16 code units) *)

TAB == 9
NL == 10
HYPHEN == 45

Min(S) == CHOOSE x \in S : \A y \in S : x <= y
Max(S) == CHOOSE x \in S : \A y \in S : x >= y

\* JavaScript \s and String.prototype.trim: WhiteSpace and LineTerminator
IsSpace(c) ==
    \/ c \in {9, 10, 11, 12, 13, 32, 160, 5760, 8232, 8233, 8239, 8287, 12288, 65279}
    \/ c \in 8192..8202

\* JavaScript \d
IsDigit(c) == c \in 48..57

\* [\u3040-\u309f\u30a0-\u30ff\u4e00-\u9faf]
IsJapaneseChar(c) ==
    \/ c \in 12352..12447
    \/ c \in 12448..12543
    \/ c \in 19968..40879

\* String.prototype.includes
Includes(s, t) ==
    \E i \in 0..(Len(s) - Len(t)) : SubSeq(s, i + 1, i + Len(t)) = t

\* p.trim() is truthy: the string has a character that trim does not strip
TrimNonEmpty(s) == \E i \in 1..Len(s) : ~IsSpace(s[i])

\* first position >= i holding a character outside the class, Len(s)+1 if none
SkipSpaces(s, i) ==
    LET rest == {j \in i..Len(s) : ~IsSpace(s[j])}
    IN  IF rest = {} THEN Len(s) + 1 ELSE Min(rest)

SkipDigits(s, i) ==
    LET rest == {j \in i..Len(s) : ~IsDigit(s[j])}
    IN  IF rest = {} THEN Len(s) + 1 ELSE Min(rest)

RECURSIVE Flatten(_)
Flatten(ss) == IF ss = <<>> THEN <<>> ELSE Head(ss) \o Flatten(Tail(ss))

SelectSeqTrim(ss) == SelectSeq(ss, TrimNonEmpty)

\* String.prototype.trim
Trim(s) ==
    LET keep == {i \in 1..Len(s) : ~IsSpace(s[i])}
    IN  IF keep = {} THEN <<>> ELSE SubSeq(s, Min(keep), Max(keep))

\* the text t stands at position i of s
HasAt(s, i, t) == i + Len(t) - 1 <= Len(s) /\ SubSeq(s, i, i + Len(t) - 1) = t

----------------------------------------------------------------------------
(* Page splitting *)

JAPANESE_CHAR_THRESHOLD == 50

\* text.match(/[\u3040-\u309f\u30a0-\u30ff\u4e00-\u9faf]/g) ... matches.length
countJapaneseChars(text) ==
    Cardinality({i \in 1..Len(text) : IsJapaneseChar(text[i])})

\* the literal page marker the vision prompt asks for
PageMarker == <<45, 45, 45, 32, 12506, 12540, 12472, 21306, 20999, 12426, 32, 45, 45, 45>>   \* "--- ページ区切り ---"

\* /\n\s*-\s*\d+\s*-\s*\n/ matched at position q (sticky): the position after
\* the match, 0 when there is no match at q.  Every quantifier is greedy; the
\* only one whose backtracking matters is the last \s*, which gives back to
\* the final \n, so the match ends after the last newline of the whitespace
\* run that follows the second hyphen.
FooterMatchEnd(s, q) ==
    IF s[q] # NL THEN 0
    ELSE LET a == SkipSpaces(s, q + 1)
         IN  IF a > Len(s) \/ s[a] # HYPHEN THEN 0
             ELSE LET b == SkipSpaces(s, a + 1)
                      c == SkipDigits(s, b)
                  IN  IF c = b THEN 0
                      ELSE LET d == SkipSpaces(s, c)
                           IN  IF d > Len(s) \/ s[d] # HYPHEN THEN 0
                               ELSE LET f == SkipSpaces(s, d + 1)
                                        nls == {j \in (d + 1)..(f - 1) : s[j] = NL}
                                    IN  IF nls = {} THEN 0 ELSE Max(nls) + 1

\* /--- ページ区切り ---/ matched at position q
MarkerMatchEnd(s, q) ==
    IF q + Len(PageMarker) - 1 <= Len(s)
       /\ SubSeq(s, q, q + Len(PageMarker) - 1) = PageMarker
    THEN q + Len(PageMarker)
    ELSE 0

\* /\s{2,}|\t/ matched at position q: a whitespace run of two or more
\* characters (taken whole, greedy), else a single tab
CellMatchEnd(s, q) ==
    IF ~IsSpace(s[q]) THEN 0
    ELSE LET r == SkipSpaces(s, q)
         IN  IF r - q >= 2 THEN r ELSE IF s[q] = TAB THEN q + 1 ELSE 0

\* the separator '\n' of content.split('\n')
NewlineMatchEnd(s, q) == IF s[q] = NL THEN q + 1 ELSE 0

DelimiterMatchEnd(delim, s, q) ==
    CASE delim = "footer" -> FooterMatchEnd(s, q)
      [] delim = "marker" -> MarkerMatchEnd(s, q)
      [] delim = "cells" -> CellMatchEnd(s, q)
      [] delim = "newline" -> NewlineMatchEnd(s, q)

\* the first position >= q at which the delimiter matches, 0 if there is none
NextMatch(delim, s, q) ==
    LET ms == {j \in q..Len(s) : DelimiterMatchEnd(delim, s, j) # 0}
    IN  IF ms = {} THEN 0 ELSE Min(ms)

\* a variant that splits at the first delimiter only (a non-global pattern)
SplitFromFirstOnly(delim, s, p) ==
    LET q == NextMatch(delim, s, p)
    IN  IF q = 0 THEN <<SubSeq(s, p, Len(s))>>
        ELSE <<SubSeq(s, p, q - 1), SubSeq(s, DelimiterMatchEnd(delim, s, q), Len(s))>>

\* a variant that forgets the fragment after the last delimiter
RECURSIVE SplitFromNoTail(_, _, _)
SplitFromNoTail(delim, s, p) ==
    LET q == NextMatch(delim, s, p)
    IN  IF q = 0 THEN <<>>
        ELSE <<SubSeq(s, p, q - 1)>>
             \o SplitFromNoTail(delim, s, DelimiterMatchEnd(delim, s, q))

\* String.prototype.split(regexp) (RegExp.prototype[@@split]): p is the start
\* of the current fragment; the pattern is tried at p, p+1, ... and the first
\* position q where it matches closes the fragment s[p..q-1]; the next
\* fragment starts where that match ends.  Neither pattern matches the empty
\* string, so a match always ends after p.  The text after the last match is
\* the last fragment.
RECURSIVE SplitFrom(_, _, _)
SplitFrom(delim, s, p) ==
    LET q == NextMatch(delim, s, p)
    IN  IF q = 0 THEN <<SubSeq(s, p, Len(s))>>
        ELSE <<SubSeq(s, p, q - 1)>>
             \o SplitFrom(delim, s, DelimiterMatchEnd(delim, s, q))

\* text.split(<delimiter>).filter((p) => p.trim())
SplitPages(delim, text) == SelectSeqTrim(SplitFrom(delim, text, 1))

----------------------------------------------------------------------------
(* Classification of a failed Gemini call *)

\* bound of the error messages fed to the classifiers (chunks per message)
MaxMsgChunks == 2

RECURSIVE NumToStr(_)
NumToStr(n) == IF n < 10 THEN <<48 + n>> ELSE NumToStr(n \div 10) \o <<48 + (n % 10)>>

NA == <<78, 47, 65>>   \* "N/A"

\* String(error) of an Error object named "Error"
ErrorToString(err) ==
    IF err.message = <<>> THEN <<69, 114, 114, 111, 114>> ELSE <<69, 114, 114, 111, 114, 58, 32>> \o err.message

\* const message = err.message || String(error)
RawMessage(err) == IF err.message # <<>> THEN err.message ELSE ErrorToString(err)

HasStatus(err, n) == err.status = <<n>>

\* status && status >= 500
StatusAtLeast500(err) == err.status # <<>> /\ err.status[1] # 0 /\ err.status[1] >= 500

\* `${status || 'N/A'}`
StatusOrNA(err) ==
    IF err.status # <<>> /\ err.status[1] # 0 THEN NumToStr(err.status[1]) ELSE NA

\* `${code || 'N/A'}`
CodeOrNA(err) == IF err.code # <<>> THEN err.code ELSE NA

IsNetworkMessage(m) ==
    \/ Includes(m, <<102, 101, 116, 99, 104, 32, 102, 97, 105, 108, 101, 100>>)    \* 'fetch failed'
    \/ Includes(m, <<69, 67, 79, 78, 78, 82, 69, 70, 85, 83, 69, 68>>)    \* 'ECONNREFUSED'
    \/ Includes(m, <<69, 78, 79, 84, 70, 79, 85, 78, 68>>)       \* 'ENOTFOUND'
    \/ Includes(m, <<103, 101, 116, 97, 100, 100, 114, 105, 110, 102, 111>>)     \* 'getaddrinfo'

IsTimeoutMessage(m) ==
    \/ Includes(m, <<116, 105, 109, 101, 111, 117, 116>>)         \* 'timeout'
    \/ Includes(m, <<69, 84, 73, 77, 69, 68, 79, 85, 84>>)       \* 'ETIMEDOUT'
    \/ Includes(m, <<65, 98, 111, 114, 116, 69, 114, 114, 111, 114>>)      \* 'AbortError'

IsTlsMessage(m) ==
    \/ Includes(m, <<99, 101, 114, 116, 105, 102, 105, 99, 97, 116, 101>>)     \* 'certificate'
    \/ Includes(m, <<83, 83, 76>>)             \* 'SSL'
    \/ Includes(m, <<84, 76, 83>>)             \* 'TLS'
    \/ Includes(m, <<67, 69, 82, 84, 95>>)           \* 'CERT_'

\* a variant that forgets status 403
IsAuthErrorNo403(err, m) ==
    HasStatus(err, 401) \/ Includes(m, <<65, 80, 73, 32, 107, 101, 121>>)

IsAuthError(err, m) ==
    HasStatus(err, 401) \/ HasStatus(err, 403) \/ Includes(m, <<65, 80, 73, 32, 107, 101, 121>>)   \* 'API key'

IsRateLimitError(err, m) ==
    \/ HasStatus(err, 429)
    \/ Includes(m, <<113, 117, 111, 116, 97>>)           \* 'quota'
    \/ Includes(m, <<114, 97, 116, 101>>)            \* 'rate'

\* a variant that tests the rate-limit trigger before the authentication one
VisionErrorKindRateFirst(err) ==
    LET m == RawMessage(err)
    IN  IF IsNetworkMessage(m) THEN "Connectivity"
        ELSE IF IsTimeoutMessage(m) THEN "Timeout"
        ELSE IF IsTlsMessage(m) THEN "TLS"
        ELSE IF IsRateLimitError(err, m) THEN "RateLimit"
        ELSE IF IsAuthError(err, m) THEN "Authentication"
        ELSE IF StatusAtLeast500(err) THEN "Server"
        ELSE "Unclassified"

\* The branch taken, in the order of the if statements; the two classifiers
\* (excelGenerator.ts and aiExtractor.ts) test the same conditions.
VisionErrorKind(err) ==
    LET m == RawMessage(err)
    IN  IF IsNetworkMessage(m) THEN "Connectivity"
        ELSE IF IsTimeoutMessage(m) THEN "Timeout"
        ELSE IF IsTlsMessage(m) THEN "TLS"
        ELSE IF IsAuthError(err, m) THEN "Authentication"
        ELSE IF IsRateLimitError(err, m) THEN "RateLimit"
        ELSE IF StatusAtLeast500(err) THEN "Server"
        ELSE "Unclassified"

ApiErrorKind(err) ==
    LET m == RawMessage(err)
    IN  IF IsNetworkMessage(m) THEN "Connectivity"
        ELSE IF IsTimeoutMessage(m) THEN "Timeout"
        ELSE IF IsTlsMessage(m) THEN "TLS"
        ELSE IF IsAuthError(err, m) THEN "Authentication"
        ELSE IF IsRateLimitError(err, m) THEN "RateLimit"
        ELSE IF StatusAtLeast500(err) THEN "Server"
        ELSE "Unclassified"

Detail == <<35443, 32048, 58, 32>>   \* "詳細: "

\* excelGenerator.ts handleGeminiError: the message of the returned Error
VisionErrorText(kind, err) ==
    LET m == RawMessage(err)
    IN  CASE kind = "Connectivity" ->
               <<91, 71, 101, 109, 105, 110, 105, 32, 86, 105, 115, 105, 111, 110, 32, 25509, 32154, 12456, 12521, 12540, 93, 32, 12469, 12540, 12496, 12540, 12395, 25509, 32154, 12391, 12365, 12414, 12379, 12435, 12290, 10>>
               \o <<21407, 22240, 58, 32, 12493, 12483, 12488, 12527, 12540, 12463, 21046, 38480, 12414, 12383, 12399, 12501, 12449, 12452, 12450, 12454, 12457, 12540, 12523, 12391, 65, 80, 73, 12450, 12463, 12475, 12473, 12364, 12502, 12525, 12483, 12463, 12373, 12428, 12390, 12356, 12427, 21487, 33021, 24615, 12364, 12354, 12426, 12414, 12377, 12290, 10>>
               \o <<23550, 35937, 12489, 12513, 12452, 12531, 58, 32, 103, 101, 110, 101, 114, 97, 116, 105, 118, 101, 108, 97, 110, 103, 117, 97, 103, 101, 46, 103, 111, 111, 103, 108, 101, 97, 112, 105, 115, 46, 99, 111, 109, 10>>
               \o Detail \o m
          [] kind = "Timeout" ->
               <<91, 71, 101, 109, 105, 110, 105, 32, 86, 105, 115, 105, 111, 110, 32, 12479, 12452, 12512, 12450, 12454, 12488, 93, 32, 65, 80, 73, 12522, 12463, 12456, 12473, 12488, 12364, 12479, 12452, 12512, 12450, 12454, 12488, 12375, 12414, 12375, 12383, 12290, 10>>
               \o <<21407, 22240, 58, 32, 12493, 12483, 12488, 12527, 12540, 12463, 36933, 24310, 12414, 12383, 12399, 12503, 12525, 12461, 12471, 35373, 23450, 12398, 21839, 38988, 12398, 21487, 33021, 24615, 12364, 12354, 12426, 12414, 12377, 12290, 10>>
               \o Detail \o m
          [] kind = "TLS" ->
               <<91, 71, 101, 109, 105, 110, 105, 32, 86, 105, 115, 105, 111, 110, 32, 83, 83, 76, 47, 84, 76, 83, 12456, 12521, 12540, 93, 32, 12475, 12461, 12517, 12522, 12486, 12451, 35388, 26126, 26360, 12398, 21839, 38988, 12364, 30330, 29983, 12375, 12414, 12375, 12383, 12290, 10>>
               \o <<21407, 22240, 58, 32, 20225, 26989, 12503, 12525, 12461, 12471, 12395, 12424, 12427, 83, 83, 76, 12452, 12531, 12473, 12506, 12463, 12471, 12519, 12531, 12398, 21487, 33021, 24615, 12364, 12354, 12426, 12414, 12377, 12290, 10>>
               \o Detail \o m
          [] kind = "Authentication" ->
               <<91, 71, 101, 109, 105, 110, 105, 32, 86, 105, 115, 105, 111, 110, 32, 35469, 35388, 12456, 12521, 12540, 93, 32, 65, 80, 73, 12461, 12540, 12364, 28961, 21177, 12414, 12383, 12399, 27177, 38480, 12364, 12354, 12426, 12414, 12379, 12435, 12290, 10>>
               \o <<12473, 12486, 12540, 12479, 12473, 58, 32>> \o StatusOrNA(err) \o <<NL>>
               \o Detail \o m
          [] kind = "RateLimit" ->
               <<91, 71, 101, 109, 105, 110, 105, 32, 86, 105, 115, 105, 111, 110, 32, 12524, 12540, 12488, 21046, 38480, 93, 32, 65, 80, 73, 12398, 20351, 29992, 21046, 38480, 12395, 36948, 12375, 12414, 12375, 12383, 12290, 10>>
               \o <<12375, 12400, 12425, 12367, 24453, 12387, 12390, 12363, 12425, 20877, 35430, 34892, 12375, 12390, 12367, 12384, 12373, 12356, 12290, 10>>
               \o Detail \o m
          [] kind = "Server" ->
               <<91, 71, 101, 109, 105, 110, 105, 32, 86, 105, 115, 105, 111, 110, 32, 12469, 12540, 12496, 12540, 12456, 12521, 12540, 93, 32, 71, 111, 111, 103, 108, 101, 12469, 12540, 12496, 12540, 20596, 12391, 12456, 12521, 12540, 12364, 30330, 29983, 12375, 12414, 12375, 12383, 12290, 10>>
               \o <<12473, 12486, 12540, 12479, 12473, 58, 32>> \o NumToStr(err.status[1]) \o <<NL>>
               \o Detail \o m
          [] OTHER ->
               <<91, 71, 101, 109, 105, 110, 105, 32, 86, 105, 115, 105, 111, 110, 32, 12456, 12521, 12540, 93, 32, 80, 68, 70, 35299, 26512, 20013, 12395, 12456, 12521, 12540, 12364, 30330, 29983, 12375, 12414, 12375, 12383, 12290, 10>>
               \o <<12467, 12540, 12489, 58, 32>> \o CodeOrNA(err) \o <<44, 32, 12473, 12486, 12540, 12479, 12473, 58, 32>> \o StatusOrNA(err) \o <<NL>>
               \o Detail \o m

\* aiExtractor.ts AIExtractor.handleGeminiError: the message of the returned Error
ApiErrorText(kind, err) ==
    LET m == RawMessage(err)
    IN  CASE kind = "Connectivity" ->
               <<91, 71, 101, 109, 105, 110, 105, 32, 65, 80, 73, 25509, 32154, 12456, 12521, 12540, 93, 32, 12469, 12540, 12496, 12540, 12395, 25509, 32154, 12391, 12365, 12414, 12379, 12435, 12290, 10>>
               \o <<21407, 22240, 58, 32, 12493, 12483, 12488, 12527, 12540, 12463, 21046, 38480, 12414, 12383, 12399, 12501, 12449, 12452, 12450, 12454, 12457, 12540, 12523, 12391, 65, 80, 73, 12450, 12463, 12475, 12473, 12364, 12502, 12525, 12483, 12463, 12373, 12428, 12390, 12356, 12427, 21487, 33021, 24615, 12364, 12354, 12426, 12414, 12377, 12290, 10>>
               \o <<23550, 35937, 12489, 12513, 12452, 12531, 58, 32, 103, 101, 110, 101, 114, 97, 116, 105, 118, 101, 108, 97, 110, 103, 117, 97, 103, 101, 46, 103, 111, 111, 103, 108, 101, 97, 112, 105, 115, 46, 99, 111, 109, 10>>
               \o Detail \o m
          [] kind = "Timeout" ->
               <<91, 71, 101, 109, 105, 110, 105, 32, 65, 80, 73, 32, 12479, 12452, 12512, 12450, 12454, 12488, 93, 32, 65, 80, 73, 12522, 12463, 12456, 12473, 12488, 12364, 12479, 12452, 12512, 12450, 12454, 12488, 12375, 12414, 12375, 12383, 12290, 10>>
               \o <<21407, 22240, 58, 32, 12493, 12483, 12488, 12527, 12540, 12463, 36933, 24310, 12414, 12383, 12399, 12503, 12525, 12461, 12471, 35373, 23450, 12398, 21839, 38988, 12398, 21487, 33021, 24615, 12364, 12354, 12426, 12414, 12377, 12290, 10>>
               \o Detail \o m
          [] kind = "TLS" ->
               <<91, 71, 101, 109, 105, 110, 105, 32, 65, 80, 73, 32, 83, 83, 76, 47, 84, 76, 83, 12456, 12521, 12540, 93, 32, 12475, 12461, 12517, 12522, 12486, 12451, 35388, 26126, 26360, 12398, 21839, 38988, 12364, 30330, 29983, 12375, 12414, 12375, 12383, 12290, 10>>
               \o <<21407, 22240, 58, 32, 20225, 26989, 12503, 12525, 12461, 12471, 12395, 12424, 12427, 83, 83, 76, 12452, 12531, 12473, 12506, 12463, 12471, 12519, 12531, 12398, 21487, 33021, 24615, 12364, 12354, 12426, 12414, 12377, 12290, 10>>
               \o Detail \o m
          [] kind = "Authentication" ->
               <<91, 71, 101, 109, 105, 110, 105, 32, 65, 80, 73, 32, 35469, 35388, 12456, 12521, 12540, 93, 32, 65, 80, 73, 12461, 12540, 12364, 28961, 21177, 12414, 12383, 12399, 27177, 38480, 12364, 12354, 12426, 12414, 12379, 12435, 12290, 10>>
               \o <<12473, 12486, 12540, 12479, 12473, 58, 32>> \o StatusOrNA(err) \o <<NL>>
               \o Detail \o m
          [] kind = "RateLimit" ->
               <<91, 71, 101, 109, 105, 110, 105, 32, 65, 80, 73, 32, 12524, 12540, 12488, 21046, 38480, 93, 32, 65, 80, 73, 12398, 20351, 29992, 21046, 38480, 12395, 36948, 12375, 12414, 12375, 12383, 12290, 10>>
               \o <<12375, 12400, 12425, 12367, 24453, 12387, 12390, 12363, 12425, 20877, 35430, 34892, 12375, 12390, 12367, 12384, 12373, 12356, 12290, 10>>
               \o Detail \o m
          [] kind = "Server" ->
               <<91, 71, 101, 109, 105, 110, 105, 32, 65, 80, 73, 32, 12469, 12540, 12496, 12540, 12456, 12521, 12540, 93, 32, 71, 111, 111, 103, 108, 101, 12469, 12540, 12496, 12540, 20596, 12391, 12456, 12521, 12540, 12364, 30330, 29983, 12375, 12414, 12375, 12383, 12290, 10>>
               \o <<12473, 12486, 12540, 12479, 12473, 58, 32>> \o NumToStr(err.status[1]) \o <<NL>>
               \o Detail \o m
          [] OTHER ->
               <<91, 71, 101, 109, 105, 110, 105, 32, 65, 80, 73, 32, 12456, 12521, 12540, 93, 32, 65, 73, 20966, 29702, 20013, 12395, 12456, 12521, 12540, 12364, 30330, 29983, 12375, 12414, 12375, 12383, 12290, 10>>
               \o <<12467, 12540, 12489, 58, 32>> \o CodeOrNA(err) \o <<44, 32, 12473, 12486, 12540, 12479, 12473, 58, 32>> \o StatusOrNA(err) \o <<NL>>
               \o Detail \o m

\* handleGeminiError(error) of excelGenerator.ts: the Error it returns, with
\* the branch that built it
handleGeminiError(err) ==
    [kind |-> VisionErrorKind(err), message |-> VisionErrorText(VisionErrorKind(err), err)]

\* AIExtractor.handleGeminiError(error) of aiExtractor.ts
AIExtractor_handleGeminiError(err) ==
    [kind |-> ApiErrorKind(err), message |-> ApiErrorText(ApiErrorKind(err), err)]

----------------------------------------------------------------------------
(* Inputs *)

\* all concatenations of at most n chunks
TextsOf(chunks, n) ==
    {Flatten(cs) : cs \in UNION {[1..k -> chunks] : k \in 0..n}}

\* a run of Hiragana, Katakana and CJK ideographs, one short of the threshold
JapaneseRun ==
    [i \in 1..(JAPANESE_CHAR_THRESHOLD - 1) |->
        IF i % 3 = 0 THEN 12354 ELSE IF i % 3 = 1 THEN 12450 ELSE 28450]

NativeChunks ==
    { JapaneseRun,
      <<12354>>,             \* "あ"
      <<120>>,              \* "x"
      <<32>>,              \* " "
      <<10>>,             \* "\n"
      <<10, 45, 32, 49, 32, 45, 10>>,      \* "\n- 1 -\n", a page footer
      <<45, 50, 45, 10>> }         \* "-2-\n", a footer without its leading newline

NativeTexts == TextsOf(NativeChunks, MaxNativeChunks)

VisionChunks ==
    { PageMarker,
      <<45, 45, 45>>,                      \* "---"
      <<32, 12506, 12540, 12472, 21306, 20999, 12426, 32, 45, 45, 45>>,        \* " ページ区切り ---", the marker after its "---"
      <<120>>,                        \* "x"
      <<10>> }                      \* "\n"

VisionTexts == TextsOf(VisionChunks, MaxVisionChunks)

\* what pdf-parse reads out of an upload: the text layer, numpages and info
Buffers ==
    [ok : {TRUE}, text : NativeTexts, numpages : {3},
     Title : {<<"Housing rules">>}, Author : {<<>>}]
    \cup
    [ok : {FALSE}, text : {<<>>}, numpages : {0}, Title : {<<>>}, Author : {<<>>}]

\* the environment variables an API key is read from
EnvKeys == {"GEMINI_API_KEY", "GOOGLE_API_KEY"}

\* getGenerativeModel({ model: ... }) of the vision fallback and of AIExtractor
VisionModel == <<103, 101, 109, 105, 110, 105, 45, 50, 46, 48, 45, 102, 108, 97, 115, 104, 45, 101, 120, 112>>
ApiModel == <<103, 101, 109, 105, 110, 105, 45, 50, 46, 48, 45, 102, 108, 97, 115, 104>>

\* "models/<model>:generateContent", as the SDK names the request of a model
RequestName(model) == <<109, 111, 100, 101, 108, 115, 47>> \o model \o <<58, 103, 101, 110, 101, 114, 97, 116, 101, 67, 111, 110, 116, 101, 110, 116>>

MessageChunks ==
    { <<102, 101, 116, 99, 104, 32, 102, 97, 105, 108, 101, 100>>, <<69, 67, 79, 78, 78, 82, 69, 70, 85, 83, 69, 68>>, <<69, 78, 79, 84, 70, 79, 85, 78, 68>>, <<103, 101, 116, 97, 100, 100, 114, 105, 110, 102, 111>>,
      <<116, 105, 109, 101, 111, 117, 116>>, <<69, 84, 73, 77, 69, 68, 79, 85, 84>>, <<65, 98, 111, 114, 116, 69, 114, 114, 111, 114>>,
      <<99, 101, 114, 116, 105, 102, 105, 99, 97, 116, 101>>, <<83, 83, 76>>, <<84, 76, 83>>, <<67, 69, 82, 84, 95>>,
      <<65, 80, 73, 32, 107, 101, 121>>, <<113, 117, 111, 116, 97>>, <<114, 97, 116, 101>>,
      RequestName(VisionModel) \o <<58, 32>>,
      RequestName(ApiModel) \o <<58, 32>>,
      <<98, 111, 111, 109>> }

Statuses == {<<>>, <<0>>, <<400>>, <<401>>, <<403>>, <<429>>, <<500>>, <<503>>}

Codes == {<<>>, <<69, 67, 79, 78, 78, 82, 69, 83, 69, 84>>}

ErrorsOf(n) == [message : TextsOf(MessageChunks, n), status : Statuses, code : Codes]

\* the rejections of model.generateContent tried in a parsePDFBuffer run: none
\* names the request of the other model
VisionErrors ==
    {e \in ErrorsOf(1) :
        /\ e.code = <<>>
        /\ e.status \in {<<>>, <<403>>, <<503>>}
        /\ ~Includes(e.message, RequestName(ApiModel))}

----------------------------------------------------------------------------
(* parsePDFBuffer *)

\* excelGenerator.ts: the document returned on the pdf-parse path
NativeDocument(d) ==
    [rawText |-> d.text,
     pages |-> SplitPages("footer", d.text),
     metadata |-> [title |-> d.Title, author |-> d.Author, pageCount |-> d.numpages],
     extractionMethod |-> "pdf-parse"]

\* excelGenerator.ts: the document returned on the Gemini Vision path
VisionDocument(d, ocrText) ==
    [rawText |-> ocrText,
     pages |-> SplitPages("marker", ocrText),
     metadata |-> [title |-> d.Title, author |-> d.Author, pageCount |-> d.numpages],
     extractionMethod |-> "gemini-vision"]

\* pdfParser.ts: ParsedPDFContent has no extractionMethod field there
LegacyDocument(d) ==
    [rawText |-> d.text,
     pages |-> SplitPages("footer", d.text),
     metadata |-> [title |-> d.Title, author |-> d.Author, pageCount |-> d.numpages],
     extractionMethod |-> "undefined"]

NoCall == /\ fn = "none" /\ arg = <<>> /\ ret = <<>>

\* the rejection of pdf(buffer) on a buffer that holds no readable PDF
InvalidPdfMessage == <<73, 110, 118, 97, 108, 105, 100, 32, 80, 68, 70, 32, 115, 116, 114, 117, 99, 116, 117, 114, 101>>

\* the path of the file on disk, whose content is `buffer`, and a path that
\* names no file
ExistingPath == <<47, 117, 112, 108, 111, 97, 100, 115, 47, 114, 117, 108, 101, 115, 46, 112, 100, 102>>
MissingPath == <<47, 117, 112, 108, 111, 97, 100, 115, 47, 110, 111, 110, 101, 46, 112, 100, 102>>
Paths == {ExistingPath, MissingPath}

\* the rejection of readFile(filePath) on a path that names no file
EnoentMessage(path) ==
    <<69, 78, 79, 69, 78, 84, 58, 32, 110, 111, 32, 115, 117, 99, 104, 32, 102, 105, 108, 101, 32, 111, 114, 32, 100, 105, 114, 101, 99, 116, 111, 114, 121, 44, 32, 111, 112, 101, 110, 32, 39>> \o path \o <<39>>

\* parsePDFBuffer(buffer) is called, or parsePDF(filePath) on a disk that holds
\* `buffer` at ExistingPath
Init ==
    /\ entry \in {"server", "orchestrator"}
    /\ buffer \in Buffers
    /\ apiKey \in SUBSET EnvKeys
    /\ \/ pc = "start" /\ fn = "parsePDFBuffer" /\ arg = <<>>
       \/ pc = "open" /\ fn = "parsePDF" /\ arg \in {<<p>> : p \in Paths}
    /\ ret = <<>>
    /\ data = <<>>
    /\ vision = <<>>
    /\ result = <<>>
    /\ thrown = <<>>
    /\ calls = <<>>
    /\ cause = <<>>

\* parsePDF: readFile(filePath) is called and awaited
ReadFile ==
    /\ pc = "open"
    /\ pc' = "reading"
    /\ UNCHANGED <<entry, buffer, apiKey, data, vision, result, thrown, calls, cause, fn, arg, ret>>

\* readFile resolves with the content of the file; parsePDF goes on as
\* parsePDFBuffer does (excelGenerator.ts calls it, pdfParser.ts repeats its body)
ReadFileOk ==
    /\ pc = "reading"
    /\ arg[1] = ExistingPath
    /\ pc' = "start"
    /\ UNCHANGED <<entry, buffer, apiKey, data, vision, result, thrown, calls, cause, fn, arg, ret>>

\* readFile rejects: the rejection leaves parsePDF as it is, pdf-parse is not called
ReadFileFail ==
    /\ pc = "reading"
    /\ arg[1] # ExistingPath
    /\ thrown' = <<EnoentMessage(arg[1])>>
    /\ pc' = "failed"
    /\ UNCHANGED <<entry, buffer, apiKey, data, vision, result, calls, cause, fn, arg, ret>>

\* pdf(buffer) is called and awaited: the function is suspended, nothing has
\* been answered yet
PdfCall ==
    /\ pc = "start"
    /\ calls' = Append(calls, "pdf")
    /\ pc' = "pdf"
    /\ UNCHANGED <<entry, buffer, apiKey, data, vision, result, thrown, cause, fn, arg, ret>>

\* const data = await pdf(buffer) resumes, the text layer is readable
PdfParse ==
    /\ pc = "pdf"
    /\ buffer.ok
    /\ data' = <<[text |-> buffer.text, numpages |-> buffer.numpages,
                  Title |-> buffer.Title, Author |-> buffer.Author]>>
    /\ pc' = "parsed"
    /\ UNCHANGED <<entry, buffer, apiKey, vision, result, thrown, calls, cause, fn, arg, ret>>

\* await pdf(buffer) rejects (corrupt or encrypted file): the rejection leaves
\* parsePDFBuffer as it is
PdfParseFail ==
    /\ pc = "pdf"
    /\ ~buffer.ok
    /\ thrown' = <<InvalidPdfMessage>>
    /\ pc' = "failed"
    /\ UNCHANGED <<entry, buffer, apiKey, data, vision, result, calls, cause, fn, arg, ret>>

\* pdfParser.ts parsePDFBuffer, after the await
LegacyReturn ==
    /\ pc = "parsed"
    /\ entry = "server"
    /\ result' = <<LegacyDocument(data[1])>>
    /\ pc' = "done"
    /\ UNCHANGED <<entry, buffer, apiKey, data, vision, thrown, calls, cause, fn, arg, ret>>

\* if (japaneseCount >= JAPANESE_CHAR_THRESHOLD)
NativeAccepted(d) == countJapaneseChars(d.text) >= JAPANESE_CHAR_THRESHOLD

\* excelGenerator.ts parsePDFBuffer: the pdf-parse result is accepted
NativeReturn ==
    /\ pc = "parsed"
    /\ entry = "orchestrator"
    /\ NativeAccepted(data[1])
    /\ result' = <<NativeDocument(data[1])>>
    /\ pc' = "done"
    /\ UNCHANGED <<entry, buffer, apiKey, data, vision, thrown, calls, cause, fn, arg, ret>>

\* excelGenerator.ts parsePDFBuffer: falls through to extractTextWithGeminiVision,
\* which first awaits the import of the SDK
Fallback ==
    /\ pc = "parsed"
    /\ entry = "orchestrator"
    /\ ~NativeAccepted(data[1])
    /\ pc' = "vision"
    /\ UNCHANGED <<entry, buffer, apiKey, data, vision, result, thrown, calls, cause, fn, arg, ret>>

\* extractTextWithGeminiVision: if (!apiKey) throw new Error('GEMINI_API_KEY is not set')
VisionNoKey ==
    /\ pc = "vision"
    /\ "GEMINI_API_KEY" \notin apiKey
    /\ thrown' = <<<<71, 69, 77, 73, 78, 73, 95, 65, 80, 73, 95, 75, 69, 89, 32, 105, 115, 32, 110, 111, 116, 32, 115, 101, 116>>>>
    /\ pc' = "failed"
    /\ UNCHANGED <<entry, buffer, apiKey, data, vision, result, calls, cause, fn, arg, ret>>

\* model.generateContent([...]) is called and awaited: the function is
\* suspended, nothing has been answered yet
VisionCall ==
    /\ pc = "vision"
    /\ "GEMINI_API_KEY" \in apiKey
    /\ calls' = Append(calls, "generateContent")
    /\ pc' = "generating"
    /\ UNCHANGED <<entry, buffer, apiKey, data, vision, result, thrown, cause, fn, arg, ret>>

\* model.generateContent resolves; parsePDFBuffer splits the text and returns
VisionOk ==
    /\ pc = "generating"
    /\ \E text \in VisionTexts :
          /\ vision' = <<text>>
          /\ result' = <<VisionDocument(data[1], text)>>
    /\ pc' = "done"
    /\ UNCHANGED <<entry, buffer, apiKey, data, thrown, calls, cause, fn, arg, ret>>

\* a variant that makes the call again after a rejection
VisionFailRetry ==
    /\ pc = "generating"
    /\ Len(calls) < 4
    /\ calls' = Append(calls, "generateContent")
    /\ UNCHANGED <<pc, entry, buffer, apiKey, data, vision, result, thrown, cause, fn, arg, ret>>

\* a variant that swallows the rejection and returns the pdf-parse text
VisionFailSwallowed ==
    /\ pc = "generating"
    /\ \E err \in VisionErrors : cause' = <<err>>
    /\ result' = <<NativeDocument(data[1])>>
    /\ pc' = "done"
    /\ UNCHANGED <<entry, buffer, apiKey, data, vision, thrown, calls, fn, arg, ret>>

\* model.generateContent rejects: catch (error) { throw handleGeminiError(error) }
VisionFail ==
    /\ pc = "generating"
    /\ \E err \in VisionErrors :
          /\ cause' = <<err>>
          /\ thrown' = <<handleGeminiError(err).message>>
    /\ pc' = "failed"
    /\ UNCHANGED <<entry, buffer, apiKey, data, vision, result, calls, fn, arg, ret>>

Next ==
    \/ ReadFile
    \/ ReadFileOk
    \/ ReadFileFail
    \/ PdfCall
    \/ PdfParse
    \/ PdfParseFail
    \/ LegacyReturn
    \/ NativeReturn
    \/ Fallback
    \/ VisionNoKey
    \/ VisionCall
    \/ VisionOk
    \/ VisionFail

Spec == Init /\ [][Next]_vars

----------------------------------------------------------------------------
(* Claims about parsePDFBuffer, checked under Spec *)

Range(f) == {f[i] : i \in DOMAIN f}

Returned == pc = "done"

LowDensity == countJapaneseChars(buffer.text) < JAPANESE_CHAR_THRESHOLD

\* parsePDF ended at readFile: parsePDFBuffer was never entered
ReadRejected ==
    /\ pc = "failed"
    /\ fn = "parsePDF"
    /\ thrown = <<EnoentMessage(arg[1])>>
    /\ data = <<>>

\* the delimiter the returned document's pages were split on
DelimiterOf(doc) ==
    IF doc.extractionMethod = "gemini-vision" THEN "marker" ELSE "footer"

\* C1: a text layer with at least 50 Japanese-script characters is taken on the
\* native path by parsePDFBuffer, in excelGenerator.ts and in pdfParser.ts: the
\* vision model is never called (the run never enters the fallback), the
\* returned rawText is the pdf-parse text, and the returned document is tagged
\* with the native provenance value 'pdf-parse'.
C1_NativePathAtThreshold ==
    (buffer.ok /\ ~LowDensity) =>
        /\ "generateContent" \notin Range(calls)
        /\ pc \notin {"vision", "generating"}
        /\ pc = "failed" => ReadRejected
        /\ Returned =>
              /\ result[1].rawText = buffer.text
              /\ result[1].extractionMethod = "pdf-parse"

\* C2: a text layer with fewer than 50 Japanese-script characters makes
\* parsePDFBuffer call the vision model, and a successful call is returned as
\* rawText tagged 'gemini-vision'; also for the parsePDFBuffer that
\* POST /api/generate calls.
C2_FallbackBelowThreshold ==
    (Returned /\ LowDensity) =>
        /\ "generateContent" \in Range(calls)
        /\ vision # <<>>
        /\ result[1].rawText = vision[1]
        /\ result[1].extractionMethod = "gemini-vision"

\* C3 as claimed: a returned document with non-empty rawText has non-empty pages
C3_PagesNonEmptyWhenTextNonEmpty ==
    Returned => (result[1].rawText # <<>> => result[1].pages # <<>>)

\* t is one whole match of /\n\s*-\s*\d+\s*-\s*\n/: a newline, whitespace, a
\* hyphen, whitespace, one or more digits, whitespace, a hyphen, whitespace, a
\* newline
C3_IsFooter(t) ==
    /\ Len(t) >= 5
    /\ t[1] = NL
    /\ t[Len(t)] = NL
    /\ \E a \in 2..(Len(t) - 3) :
          /\ t[a] = HYPHEN
          /\ \A i \in 2..(a - 1) : IsSpace(t[i])
          /\ \E b \in (a + 2)..(Len(t) - 1) :
                /\ t[b] = HYPHEN
                /\ \A i \in (b + 1)..(Len(t) - 1) : IsSpace(t[i])
                /\ \E c \in (a + 1)..(b - 1) :
                      /\ IsDigit(t[c])
                      /\ \A i \in (a + 1)..(c - 1) : IsSpace(t[i])
                      /\ \A i \in (c + 1)..(b - 1) :
                            \/ IsDigit(t[i]) /\ \A j \in c..i : IsDigit(t[j])
                            \/ IsSpace(t[i]) /\ \A j \in i..(b - 1) : IsSpace(t[j])

\* the positions after a page delimiter that begins at position p of s
C3_DelimiterEnds(delim, s, p) ==
    IF delim = "footer"
    THEN {q \in (p + 5)..(Len(s) + 1) :
            s[p] = NL /\ s[q - 1] = NL /\ C3_IsFooter(SubSeq(s, p, q - 1))}
    ELSE {q \in {p + Len(PageMarker)} :
            q <= Len(s) + 1 /\ SubSeq(s, p, q - 1) = PageMarker}

\* s from position p on is made up entirely of whitespace and page delimiters,
\* read as String.prototype.split finds the delimiters: from left to right,
\* the first match, and of the matches at one position the longest
RECURSIVE C3_OnlyBlankAndDelimiters(_, _, _)
C3_OnlyBlankAndDelimiters(delim, s, p) ==
    IF p > Len(s) THEN TRUE
    ELSE LET ends == C3_DelimiterEnds(delim, s, p)
         IN  IF ends # {}
             THEN C3_OnlyBlankAndDelimiters(delim, s, Max(ends))
             ELSE IsSpace(s[p]) /\ C3_OnlyBlankAndDelimiters(delim, s, p + 1)

\* the returned rawText holds something besides whitespace and page delimiters
C3_HasPageText ==
    ~C3_OnlyBlankAndDelimiters(DelimiterOf(result[1]), result[1].rawText, 1)

\* C3 amended: a returned document whose rawText is not made up entirely of
\* whitespace and page delimiters (of the path the document took) has
\* non-empty pages.
C3_PagesNonEmptyUnlessBlankOrDelimiters ==
    Returned => (C3_HasPageText => result[1].pages # <<>>)

\* the texts the amended C3 leaves out are the texts the claim fails on: a
\* rawText made up entirely of whitespace and page delimiters has no pages
C3_BlankOrDelimitersHaveNoPages ==
    Returned => (~C3_HasPageText => result[1].pages = <<>>)

\* C3 witness: a returned rawText in which a page delimiter is found and
\* something else besides whitespace, and the pages are not empty
C3_Witness ==
    /\ Returned
    /\ C3_HasPageText
    /\ \E p \in 1..Len(result[1].rawText) :
          C3_DelimiterEnds(DelimiterOf(result[1]), result[1].rawText, p) # {}
    /\ result[1].pages # <<>>

\* a returned rawText that is not empty, is made up entirely of page
\* delimiters and whitespace, and has no pages
C3_WitnessDelimitersOnly ==
    /\ Returned
    /\ ~C3_HasPageText
    /\ \E p \in 1..Len(result[1].rawText) :
          C3_DelimiterEnds(DelimiterOf(result[1]), result[1].rawText, p) # {}
    /\ result[1].pages = <<>>

\* C4: splitting a returned page again on the delimiter of its path, and
\* dropping blank fragments, gives back exactly that page.
C4_SplitIdempotent ==
    Returned =>
        \A i \in 1..Len(result[1].pages) :
            SplitPages(DelimiterOf(result[1]), result[1].pages[i]) = <<result[1].pages[i]>>

\* C4 witness: two pages, the second one beginning with a footer that lost its
\* leading newline to the delimiter before it
C4_Witness ==
    /\ Returned
    /\ Len(result[1].pages) = 2
    /\ result[1].pages[2][1] = HYPHEN

\* C5: a rejected vision call ends parsePDFBuffer with an error and no
\* document; the error is the classified one (it carries the Gemini Vision
\* diagnostic) and its message contains the message of the rejection.
C5_VisionFailurePropagates ==
    cause # <<>> =>
        /\ pc = "failed"
        /\ result = <<>>
        /\ thrown # <<>>
        /\ Includes(thrown[1], RawMessage(cause[1]))
        /\ Includes(thrown[1], Detail \o cause[1].message)
        /\ SubSeq(thrown[1], 1, 15) = <<91, 71, 101, 109, 105, 110, 105, 32, 86, 105, 115, 105, 111, 110, 32>>   \* "[Gemini Vision "

\* C5 witness: a 503 rejection naming the request was thrown on
C5_Witness ==
    /\ pc = "failed"
    /\ cause # <<>>
    /\ cause[1].status = <<503>>
    /\ Len(cause[1].message) > 4

\* C6: pdf-parse is called exactly once and first, the vision model at most
\* once and only after it; a rejected call is not tried again.
C6_CallsOnceInOrder ==
    /\ \/ calls = <<>>
       \/ calls = <<"pdf">>
       \/ calls = <<"pdf", "generateContent">>
    /\ calls = <<>> <=> (pc \in {"open", "reading", "start"} \/ ReadRejected)
    /\ cause # <<>> => (pc = "failed" /\ calls = <<"pdf", "generateContent">>)

\* C6 witness: the vision call was made, after pdf-parse, and failed
C6_Witness ==
    /\ pc = "failed"
    /\ cause # <<>>
    /\ calls = <<"pdf", "generateContent">>

----------------------------------------------------------------------------
(* The error classifiers as pure functions: SpecClassify *)

\* no parsePDFBuffer run is in progress
NoRun ==
    /\ entry = "none"
    /\ buffer = <<>>
    /\ apiKey = {}
    /\ data = <<>>
    /\ vision = <<>>
    /\ result = <<>>
    /\ thrown = <<>>
    /\ calls = <<>>
    /\ cause = <<>>

runVars == <<entry, buffer, apiKey, data, vision, result, thrown, calls, cause>>

InitClassify ==
    /\ pc = "call"
    /\ fn \in {"handleGeminiError", "AIExtractor.handleGeminiError"}
    /\ arg \in ErrorsOf(MaxMsgChunks)
    /\ ret = <<>>
    /\ NoRun

\* the catch block of extractTextWithGeminiVision (excelGenerator.ts)
ClassifyVision ==
    /\ pc = "call"
    /\ fn = "handleGeminiError"
    /\ ret' = <<handleGeminiError(arg)>>
    /\ pc' = "ret"
    /\ UNCHANGED <<fn, arg, runVars>>

\* the catch block of AIExtractor.extractRequirements (aiExtractor.ts)
ClassifyApi ==
    /\ pc = "call"
    /\ fn = "AIExtractor.handleGeminiError"
    /\ ret' = <<AIExtractor_handleGeminiError(arg)>>
    /\ pc' = "ret"
    /\ UNCHANGED <<fn, arg, runVars>>

NextClassify == ClassifyVision \/ ClassifyApi

SpecClassify == InitClassify /\ [][NextClassify]_vars

\* The message @google/generative-ai gives the error of a non-2xx response:
\* "[GoogleGenerativeAI Error]: Error fetching from <url>: [<status>] <detail>",
\* the url naming the model the request was made to and the generateContent
\* method; err.status is the response status.
SdkHttpMessage(model, status, detail) ==
    <<91, 71, 111, 111, 103, 108, 101, 71, 101, 110, 101, 114, 97, 116, 105, 118, 101, 65, 73, 32, 69, 114, 114, 111, 114, 93, 58, 32, 69, 114, 114, 111, 114, 32, 102, 101, 116, 99, 104, 105, 110, 103, 32, 102, 114, 111, 109, 32, 104, 116, 116, 112, 115, 58, 47, 47, 103, 101, 110, 101, 114, 97, 116, 105, 118, 101, 108, 97, 110, 103, 117, 97, 103, 101, 46, 103, 111, 111, 103, 108, 101, 97, 112, 105, 115, 46, 99, 111, 109, 47, 118, 49, 98, 101, 116, 97, 47>>
    \o RequestName(model) \o <<58, 32, 91>> \o NumToStr(status) \o <<93, 32>> \o detail

HttpStatuses == {400, 401, 403, 404, 429, 500, 503}

\* the detail (status text and message of the response): a text that names no
\* request
HttpDetails ==
    {d \in TextsOf(MessageChunks, MaxMsgChunks) : ~Includes(d, <<58, 103, 101, 110, 101, 114, 97, 116, 101, 67, 111, 110, 116, 101, 110, 116>>)}

HttpErrors(model) ==
    {[message |-> SdkHttpMessage(model, st, d), status |-> <<st>>, code |-> <<>>] :
        st \in HttpStatuses, d \in HttpDetails}

\* the classifiers applied to the errors of HTTP responses, each to the
\* responses to the request of its own model
InitClassifyHttp ==
    /\ pc = "call"
    /\ \/ fn = "handleGeminiError" /\ arg \in HttpErrors(VisionModel)
       \/ fn = "AIExtractor.handleGeminiError" /\ arg \in HttpErrors(ApiModel)
    /\ ret = <<>>
    /\ NoRun

SpecClassifyHttp == InitClassifyHttp /\ [][NextClassify]_vars

Classified == pc = "ret" /\ fn \in {"handleGeminiError", "AIExtractor.handleGeminiError"}

\* C7: an error with HTTP status 500 or more is classified Server-side,
\* whatever its message says.
C7_Status5xxIsServerSide ==
    (Classified /\ arg.status # <<>> /\ arg.status[1] >= 500) => ret[1].kind = "Server"

\* the message carries one of the substrings tested before the status:
\* connectivity, timeout and TLS/certificate
C8_EarlierTrigger(m) ==
    \E t \in { <<102, 101, 116, 99, 104, 32, 102, 97, 105, 108, 101, 100>>, <<69, 67, 79, 78, 78, 82, 69, 70, 85, 83, 69, 68>>, <<69, 78, 79, 84, 70, 79, 85, 78, 68>>, <<103, 101, 116, 97, 100, 100, 114, 105, 110, 102, 111>>,
               <<116, 105, 109, 101, 111, 117, 116>>, <<69, 84, 73, 77, 69, 68, 79, 85, 84>>, <<65, 98, 111, 114, 116, 69, 114, 114, 111, 114>>,
               <<99, 101, 114, 116, 105, 102, 105, 99, 97, 116, 101>>, <<83, 83, 76>>, <<84, 76, 83>>, <<67, 69, 82, 84, 95>> } : Includes(m, t)

C8_AuthTrigger ==
    \/ arg.status \in {<<401>>, <<403>>}
    \/ Includes(arg.message, <<65, 80, 73, 32, 107, 101, 121>>)   \* 'API key'

\* C8 as claimed: status 401 or 403, or a message containing 'API key', is
\* classified Authentication.
C8_AuthTriggerIsAuthentication ==
    (Classified /\ C8_AuthTrigger) => ret[1].kind = "Authentication"

\* C8 amended: status 401 or 403, or a message containing 'API key', is
\* classified Authentication unless the message contains one of the
\* connectivity, timeout or TLS/certificate substrings, which are tested first
\* (then the error gets that earlier kind).
C8_AuthenticationUnlessEarlierTrigger ==
    (Classified /\ C8_AuthTrigger) =>
        IF C8_EarlierTrigger(arg.message)
        THEN ret[1].kind \in {"Connectivity", "Timeout", "TLS"}
        ELSE ret[1].kind = "Authentication"

\* C8 witness: a 403 whose message names the request (and so contains 'rate')
\* was classified Authentication by the vision classifier
C8_Witness ==
    /\ Classified
    /\ fn = "handleGeminiError"
    /\ arg.status = <<403>>
    /\ Includes(arg.message, <<103, 101, 110, 101, 114, 97, 116, 101, 67, 111, 110, 116, 101, 110, 116>>)
    /\ ret[1].kind = "Authentication"

\* the seven kinds in the order in which their triggers are tested
C19_Kinds ==
    <<"Connectivity", "Timeout", "TLS", "Authentication", "RateLimit", "Server", "Unclassified">>

\* the trigger of each kind, on the error's message, status and code
C19_Trigger(kind, err) ==
    LET Has(t) == Includes(err.message, t)
    IN  CASE kind = "Connectivity" ->
                Has(<<102, 101, 116, 99, 104, 32, 102, 97, 105, 108, 101, 100>>) \/ Has(<<69, 67, 79, 78, 78, 82, 69, 70, 85, 83, 69, 68>>) \/ Has(<<69, 78, 79, 84, 70, 79, 85, 78, 68>>) \/ Has(<<103, 101, 116, 97, 100, 100, 114, 105, 110, 102, 111>>)
          [] kind = "Timeout" ->
                Has(<<116, 105, 109, 101, 111, 117, 116>>) \/ Has(<<69, 84, 73, 77, 69, 68, 79, 85, 84>>) \/ Has(<<65, 98, 111, 114, 116, 69, 114, 114, 111, 114>>)
          [] kind = "TLS" ->
                Has(<<99, 101, 114, 116, 105, 102, 105, 99, 97, 116, 101>>) \/ Has(<<83, 83, 76>>) \/ Has(<<84, 76, 83>>) \/ Has(<<67, 69, 82, 84, 95>>)
          [] kind = "Authentication" ->
                err.status \in {<<401>>, <<403>>} \/ Has(<<65, 80, 73, 32, 107, 101, 121>>)
          [] kind = "RateLimit" ->
                err.status = <<429>> \/ Has(<<113, 117, 111, 116, 97>>) \/ Has(<<114, 97, 116, 101>>)
          [] kind = "Server" ->
                err.status # <<>> /\ err.status[1] >= 500
          [] kind = "Unclassified" -> TRUE

\* the earliest kind, in the fixed order, whose trigger the error matches
C19_EarliestKind(err) ==
    C19_Kinds[Min({k \in 1..Len(C19_Kinds) : C19_Trigger(C19_Kinds[k], err)})]

\* C19: every error gets exactly one of the seven kinds, the earliest in the
\* order Connectivity, Timeout, TLS/certificate, Authentication, Rate limit,
\* Server-side, Unclassified whose trigger it matches, and the classifier of
\* the primary AI call and that of the vision fallback give it the same kind.
C19_EarliestKindBothClassifiers ==
    Classified =>
        /\ ret[1].kind \in {C19_Kinds[k] : k \in 1..Len(C19_Kinds)}
        /\ ret[1].kind = C19_EarliestKind(arg)
        /\ handleGeminiError(arg).kind = AIExtractor_handleGeminiError(arg).kind

\* C19 witness: a 503 whose message holds both 'SSL' and 'quota' matched the
\* TLS, Rate limit and Server-side triggers and was classified TLS by the
\* classifier of the primary AI call
C19_Witness ==
    /\ Classified
    /\ fn = "AIExtractor.handleGeminiError"
    /\ arg.status = <<503>>
    /\ arg.message = <<83, 83, 76, 113, 117, 111, 116, 97>>
    /\ ret[1].kind = "TLS"
    /\ handleGeminiError(arg).kind = "TLS"

----------------------------------------------------------------------------
(* extractTables *)

\* table texts are concatenations of at most this many chunks
MaxTableChunks == 4

OpenQuotes == {12300, 12302}     \* the characters of [「『]
CloseQuotes == {12301, 12303}    \* the characters of [」』]
Beppyo == <<21029, 34920>>               \* "別表"
Fusoku == <<20184, 21063>>               \* "付則"
Ijou == <<20197, 19978>>                 \* "以" and "上" of /以\s*上/

\* a variant whose lookahead forgets 付則
TableLookaheadNoFusoku(s, e) ==
    \/ HasAt(s, e, Beppyo)
    \/ e <= Len(s) /\ s[e] \in OpenQuotes /\ HasAt(s, e + 1, Beppyo)
    \/ /\ e <= Len(s)
       /\ s[e] = Ijou[1]
       /\ LET f == SkipSpaces(s, e + 1) IN f <= Len(s) /\ s[f] = Ijou[2]
    \/ e = Len(s) + 1

\* the lookahead (?=[「『]?別表|付則|以\s*上|$) holds at position e
TableLookahead(s, e) ==
    \/ HasAt(s, e, Beppyo)
    \/ e <= Len(s) /\ s[e] \in OpenQuotes /\ HasAt(s, e + 1, Beppyo)
    \/ HasAt(s, e, Fusoku)
    \/ /\ e <= Len(s)
       /\ s[e] = Ijou[1]
       /\ LET f == SkipSpaces(s, e + 1) IN f <= Len(s) /\ s[f] = Ijou[2]
    \/ e = Len(s) + 1

\* the first newline at or after position w, Len(s)+1 if there is none
LineEnd(s, w) ==
    LET nls == {x \in w..Len(s) : s[x] = NL}
    IN  IF nls = {} THEN Len(s) + 1 ELSE Min(nls)

\* position of 別表 for a match starting at i: after the optional quote
BeppyoAt(s, i) == IF s[i] \in OpenQuotes THEN i + 1 ELSE i

\* The ways /[「『]?別表\s*(\d+)[」』]?\s*([^\n]+)\n/ matches at position i:
\* k is where the digits start, n where (\d+) ends, m where [」』]? ends, w
\* where the second \s* ends and the title starts, u the newline that ends
\* the title (the title is greedy and must be followed by \n, so it runs to
\* the end of its line).
TableHeads(s, i) ==
    LET j == BeppyoAt(s, i)
        k == SkipSpaces(s, j + 2)
        AfterQuote(n) ==
            {n} \cup (IF n <= Len(s) /\ s[n] \in CloseQuotes THEN {n + 1} ELSE {})
        TitleStarts(m) ==
            {w \in m..SkipSpaces(s, m) :
                w <= Len(s) /\ s[w] # NL /\ LineEnd(s, w) <= Len(s)}
    IN  IF ~HasAt(s, j, Beppyo) THEN {}
        ELSE UNION { UNION { { [k |-> k, n |-> n, m |-> m, w |-> w, u |-> LineEnd(s, w)] :
                                 w \in TitleStarts(m) } :
                             m \in AfterQuote(n) } :
                     n \in (k + 1)..SkipDigits(s, k) }

\* the way the backtracking matcher finds first: every quantifier is greedy,
\* so the longest (\d+), then the quote taken, then the longest \s*
FirstHead(hs) ==
    CHOOSE h \in hs : \A g \in hs :
        \/ h.n > g.n
        \/ h.n = g.n /\ h.m > g.m
        \/ h.n = g.n /\ h.m = g.m /\ h.w >= g.w

\* the match at position i: match[1], match[2], match[3] and where it ends;
\* the body is lazy, it ends at the first position where the lookahead holds
TableMatchAt(s, i) ==
    LET h == FirstHead(TableHeads(s, i))
        e == Min({x \in (h.u + 1)..(Len(s) + 1) : TableLookahead(s, x)})
    IN  [start |-> i,
         num |-> SubSeq(s, h.k, h.n - 1),
         title |-> SubSeq(s, h.w, h.u - 1),
         bodyStart |-> h.u + 1,
         body |-> SubSeq(s, h.u + 1, e - 1),
         end |-> e]

\* text.matchAll(pattern): the leftmost match at or after pos, then on from
\* its end (a match is never empty)
RECURSIVE TableMatchesFrom(_, _)
TableMatchesFrom(s, pos) ==
    LET starts == {i \in pos..Len(s) : TableHeads(s, i) # {}}
    IN  IF starts = {} THEN <<>>
        ELSE LET mt == TableMatchAt(s, Min(starts))
             IN  <<mt>> \o TableMatchesFrom(s, mt.end)

\* content.split('\n').filter((l) => l.trim())
TableLines(content) == SelectSeqTrim(SplitFrom("newline", content, 1))

\* a variant that keeps the blank cells
TableRowsUnfiltered(lines) ==
    [x \in 1..Len(lines) |-> SplitFrom("cells", lines[x], 1)]

\* lines.map((l) => l.split(/\s{2,}|\t/).filter((c) => c.trim()))
TableRows(lines) ==
    [x \in 1..Len(lines) |-> SelectSeqTrim(SplitFrom("cells", lines[x], 1))]

\* '別表' + match[1] + ' ' + match[2].trim()
TableTitle(mt) == Beppyo \o mt.num \o <<32>> \o Trim(mt.title)

RECURSIVE TablesOf(_)
TablesOf(ms) ==
    IF ms = <<>> THEN <<>>
    ELSE LET lines == TableLines(Head(ms).body)
         IN  (IF Len(lines) > 0
              THEN <<[title |-> TableTitle(Head(ms)), headers |-> <<>>,
                      rows |-> TableRows(lines)]>>
              ELSE <<>>)
             \o TablesOf(Tail(ms))

extractTables(text) == TablesOf(TableMatchesFrom(text, 1))

----------------------------------------------------------------------------
(* extractTables as a pure function: SpecTables *)

\* the text of the specification's example, "..." included
ExampleTableText ==
    <<21029, 34920, 49, 32, 23478, 36035, 38480, 24230, 38989, 10, 49, 32026, 32, 49, 48, 48, 48, 48, 48, 10, 50, 32026, 32, 56, 48, 48, 48, 48, 10, 20184, 21063, 10, 46, 46, 46>>

TableChunks ==
    { <<21029, 34920>>,             \* "別表"
      <<49>>,                \* "1"
      <<21029, 34920, 49, 32, 23478, 36035, 10>>,     \* "別表1 家賃\n", a title line
      <<12300, 21029, 34920, 50, 12301, 10>>,      \* "「別表2」\n", a quoted header alone on its line
      <<49, 32026, 32, 32, 49, 48, 48, 9, 26481, 20140, 10>>, \* "1級  100\t東京\n", a row of three cells
      <<50, 32026, 32, 56, 48>>,           \* "2級 80", a row without its newline
      <<20184, 21063>>,             \* "付則"
      <<20197, 32, 19978>>,            \* "以 上"
      <<20197, 19978>>,             \* "以上"
      <<32>>,                \* " "
      <<10>> }              \* "\n"

TableTexts == TextsOf(TableChunks, MaxTableChunks) \cup {ExampleTableText}

InitTables ==
    /\ pc = "call"
    /\ fn = "none"
    /\ arg \in TableTexts
    /\ ret = <<>>
    /\ NoRun

ExtractTables ==
    /\ pc = "call"
    /\ fn' = "extractTables"
    /\ ret' = <<extractTables(arg)>>
    /\ pc' = "ret"
    /\ UNCHANGED <<arg, runVars>>

NextTables == ExtractTables

SpecTables == InitTables /\ [][NextTables]_vars

\* the first position at or after p where 別表, 付則 or 以上 stands, Len(s)+1
\* when none does
C9_FirstTerminator(s, p) ==
    LET at == {x \in p..Len(s) :
                  HasAt(s, x, <<21029, 34920>>) \/ HasAt(s, x, <<20184, 21063>>) \/ HasAt(s, x, <<20197, 19978>>)}
    IN  IF at = {} THEN Len(s) + 1 ELSE Min(at)

\* the matches that yield a table: those whose body has a non-blank line
C9_TableMatches(s) ==
    SelectSeq(TableMatchesFrom(s, 1), LAMBDA mt : Len(TableLines(mt.body)) > 0)

\* C9: the rows of a table hold no text from the first 別表, 付則 or 以上 after
\* its title line on: the body they are cut from ends at or before it, every
\* cell is text of that region and none holds a terminator.  The example
\* '別表1 家賃限度額\n1級 100000\n2級 80000\n付則\n...' gives exactly one table,
\* titled '別表1 家賃限度額', with two rows.
C9_RowsStopAtTerminator ==
    (pc = "ret" /\ fn = "extractTables") =>
        LET ms == C9_TableMatches(arg)
            ts == ret[1]
        IN  /\ Len(ts) = Len(ms)
            /\ \A x \in 1..Len(ts) :
                  LET stop == C9_FirstTerminator(arg, ms[x].bodyStart)
                      region == SubSeq(arg, ms[x].bodyStart, stop - 1)
                  IN  /\ ms[x].end <= stop
                      /\ \A r \in 1..Len(ts[x].rows) : \A c \in 1..Len(ts[x].rows[r]) :
                            /\ Includes(region, ts[x].rows[r][c])
                            /\ ~Includes(ts[x].rows[r][c], <<21029, 34920>>)
                            /\ ~Includes(ts[x].rows[r][c], <<20184, 21063>>)
                            /\ ~Includes(ts[x].rows[r][c], <<20197, 19978>>)
            /\ arg = ExampleTableText =>
                  /\ Len(ts) = 1
                  /\ ts[1].title = <<21029, 34920, 49, 32, 23478, 36035, 38480, 24230, 38989>>   \* "別表1 家賃限度額"
                  /\ ts[1].rows = << <<<<49, 32026, 32, 49, 48, 48, 48, 48, 48>>>>, <<<<50, 32026, 32, 56, 48, 48, 48, 48>>>> >>

\* C9 witness: the example was scanned and gave its table
C9_Witness ==
    /\ pc = "ret"
    /\ fn = "extractTables"
    /\ arg = ExampleTableText
    /\ Len(ret[1]) = 1
    /\ Len(ret[1][1].rows) = 2

\* the lines of a text (cut at every newline) that hold a non-whitespace character
C20_NonBlankLines(body) ==
    LET cuts == {0, Len(body) + 1} \cup {i \in 1..Len(body) : body[i] = 10}
        Nth(x) == CHOOSE c \in cuts : Cardinality({d \in cuts : d < c}) = x
        lines == [x \in 1..(Cardinality(cuts) - 1) |-> SubSeq(body, Nth(x - 1) + 1, Nth(x) - 1)]
    IN  SelectSeq(lines, LAMBDA l : \E i \in 1..Len(l) : ~IsSpace(l[i]))

\* a text without its whitespace
C20_Squeeze(s) == SelectSeq(s, LAMBDA c : ~IsSpace(c))

\* C20: every table has empty headers and at least one row, every row at least
\* one cell, no cell is empty or whitespace-only, and the rows are the non-blank
\* lines of the match's body in their order (row r holds, cell after cell, the
\* text of the r-th non-blank line); a match whose body has no non-blank line
\* gives no table.
C20_RowsAreNonBlankLines ==
    (pc = "ret" /\ fn = "extractTables") =>
        LET ms == SelectSeq(TableMatchesFrom(arg, 1),
                            LAMBDA mt : C20_NonBlankLines(mt.body) # <<>>)
            ts == ret[1]
        IN  /\ Len(ts) = Len(ms)
            /\ \A x \in 1..Len(ts) :
                  LET lines == C20_NonBlankLines(ms[x].body)
                  IN  /\ ts[x].headers = <<>>
                      /\ Len(ts[x].rows) >= 1
                      /\ Len(ts[x].rows) = Len(lines)
                      /\ \A r \in 1..Len(ts[x].rows) :
                            /\ Len(ts[x].rows[r]) >= 1
                            /\ \A c \in 1..Len(ts[x].rows[r]) :
                                  \E i \in 1..Len(ts[x].rows[r][c]) : ~IsSpace(ts[x].rows[r][c][i])
                            /\ C20_Squeeze(Flatten(ts[x].rows[r])) = C20_Squeeze(lines[r])

\* C20 witness: a body line that starts with two spaces gave a row of three
\* cells, the empty leading cell dropped
C20_Witness ==
    /\ pc = "ret"
    /\ fn = "extractTables"
    /\ arg = <<21029, 34920, 49, 32, 23478, 36035, 10, 32, 32, 49, 32026, 32, 32, 49, 48, 48, 9, 26481, 20140, 10>>
    /\ Len(ret[1]) = 1
    /\ ret[1][1].headers = <<>>
    /\ ret[1][1].rows = << << <<49, 32026>>, <<49, 48, 48>>, <<26481, 20140>> >> >>

\* C20 witness of a dropped match: 別表1 with a title line and only a blank
\* line after it gave no table
C20_WitnessNoRows ==
    /\ pc = "ret"
    /\ fn = "extractTables"
    /\ arg = <<21029, 34920, 49, 32, 23478, 36035, 10, 32, 10>>
    /\ Len(TableMatchesFrom(arg, 1)) = 1
    /\ ret[1] = <<>>

----------------------------------------------------------------------------
(* extractVariables *)

\* descriptions are concatenations of at most this many chunks
MaxDescChunks == 5

VarDelimiters == {12289, 12290, 10}                 \* the characters excluded by [^、。\n]
VarSuffixes == {26009, 38989, 36027, 37329, 29575}  \* 料 額 費 金 率

\* /([^、。\n]+(?:料|額|費|金|率))/ matched at position i: the position after the
\* match, 0 when there is none.  [^、。\n]+ is greedy: it takes the whole run up
\* to the next delimiter and gives back to the last 料/額/費/金/率 of the run,
\* which must leave it at least one character.
VarMatchEnd(s, i) ==
    IF s[i] \in VarDelimiters THEN 0
    ELSE LET ds == {x \in i..Len(s) : s[x] \in VarDelimiters}
             r == IF ds = {} THEN Len(s) + 1 ELSE Min(ds)
             ps == {p \in (i + 1)..(r - 1) : s[p] \in VarSuffixes}
         IN  IF ps = {} THEN 0 ELSE Max(ps) + 1

\* description.matchAll(pattern): match[1] of every match, in order
RECURSIVE VarMatchesFrom(_, _)
VarMatchesFrom(s, pos) ==
    LET starts == {i \in pos..Len(s) : VarMatchEnd(s, i) # 0}
    IN  IF starts = {} THEN <<>>
        ELSE LET i == Min(starts)
                 e == VarMatchEnd(s, i)
             IN  <<SubSeq(s, i, e - 1)>> \o VarMatchesFrom(s, e)

\* for (const match of matches) if (!variables.includes(match[1])) variables.push(match[1])
RECURSIVE PushNewMatches(_, _)
PushNewMatches(variables, ms) ==
    IF ms = <<>> THEN variables
    ELSE PushNewMatches(
             IF \E x \in 1..Len(variables) : variables[x] = Head(ms)
             THEN variables
             ELSE Append(variables, Head(ms)),
             Tail(ms))

extractVariables(description) == PushNewMatches(<<>>, VarMatchesFrom(description, 1))

----------------------------------------------------------------------------
(* extractVariables as a pure function: SpecVariables *)

DescChunks ==
    { <<20351, 29992, 26009>>,    \* "使用料"
      <<31649, 29702, 36027>>,    \* "管理費"
      <<22522, 26412>>,      \* "基本"
      <<12399>>,        \* "は"
      <<12289>>,        \* "、"
      <<12290>>,        \* "。"
      <<10>> }       \* "\n"

Descriptions == TextsOf(DescChunks, MaxDescChunks)

InitVariables ==
    /\ pc = "call"
    /\ fn = "none"
    /\ arg \in Descriptions
    /\ ret = <<>>
    /\ NoRun

ExtractVariables ==
    /\ pc = "call"
    /\ fn' = "extractVariables"
    /\ ret' = <<extractVariables(arg)>>
    /\ pc' = "ret"
    /\ UNCHANGED <<arg, runVars>>

NextVariables == ExtractVariables

SpecVariables == InitVariables /\ [][NextVariables]_vars

\* the fee names the claim is checked for
C10_Names == { <<20351, 29992, 26009>>, <<31649, 29702, 36027>> }

\* the result has no duplicates and lists the matched texts in the order in
\* which each was first matched
C10_FirstSeenNoDuplicates ==
    LET ms == VarMatchesFrom(arg, 1)
        vs == ret[1]
        First(v) == Min({x \in 1..Len(ms) : ms[x] = v})
    IN  /\ \A a, b \in 1..Len(vs) : a # b => vs[a] # vs[b]
        /\ {vs[a] : a \in 1..Len(vs)} = {ms[x] : x \in 1..Len(ms)}
        /\ \A a, b \in 1..Len(vs) : a < b => First(vs[a]) < First(vs[b])

\* C10 as claimed: no duplicates, first-seen order, and a fee name occurring
\* twice in the description, whatever lies between, is exactly one entry,
\* preceded only by text that stands before its first occurrence.
C10_RepeatedNameOnce ==
    (pc = "ret" /\ fn = "extractVariables") =>
        /\ C10_FirstSeenNoDuplicates
        /\ \A name \in C10_Names :
              LET occ == {i \in 1..Len(arg) : HasAt(arg, i, name)}
                  at == {k \in 1..Len(ret[1]) : ret[1][k] = name}
              IN  Cardinality(occ) >= 2 =>
                     /\ Cardinality(at) = 1
                     /\ \A k \in 1..(Min(at) - 1) :
                           Includes(SubSeq(arg, 1, Min(occ) - 1), ret[1][k])

\* the segments of the description between 、 。 newline and its two ends
C10_Segments(s) ==
    LET cuts == {0, Len(s) + 1} \cup {i \in 1..Len(s) : s[i] \in {12289, 12290, 10}}
        Nth(x) == CHOOSE c \in cuts : Cardinality({d \in cuts : d < c}) = x
    IN  [x \in 1..(Cardinality(cuts) - 1) |-> SubSeq(s, Nth(x - 1) + 1, Nth(x) - 1)]

\* the segment starts with the name and has no 料 額 費 金 率 after it
C10_NamesSegment(seg, name) ==
    /\ HasAt(seg, 1, name)
    /\ \A x \in (Len(name) + 1)..Len(seg) : seg[x] \notin {26009, 38989, 36027, 37329, 29575}

\* C10, the part the code satisfies: no duplicates, first-seen order, and a fee name that twice
\* starts a segment bounded by 、 。 newline or the description's ends, with no
\* further 料 額 費 金 率 in that segment, is exactly one entry; the entries
\* before it are text of earlier segments, those after it of later segments.
C10_RepeatedSegmentOnce ==
    (pc = "ret" /\ fn = "extractVariables") =>
        /\ C10_FirstSeenNoDuplicates
        /\ \A name \in C10_Names :
              LET segs == C10_Segments(arg)
                  occ == {a \in 1..Len(segs) : C10_NamesSegment(segs[a], name)}
                  at == {k \in 1..Len(ret[1]) : ret[1][k] = name}
              IN  Cardinality(occ) >= 2 =>
                     /\ Cardinality(at) = 1
                     /\ \A k \in 1..(Min(at) - 1) :
                           \E a \in 1..(Min(occ) - 1) : Includes(segs[a], ret[1][k])
                     /\ \A k \in (Min(at) + 1)..Len(ret[1]) :
                           \E a \in (Min(occ) + 1)..Len(segs) : Includes(segs[a], ret[1][k])

\* C10 witness: "管理費、使用料、使用料" gave the name once, in second place
C10_Witness ==
    /\ pc = "ret"
    /\ fn = "extractVariables"
    /\ arg = <<31649, 29702, 36027, 12289, 20351, 29992, 26009, 12289, 20351, 29992, 26009>>
    /\ ret[1] = << <<31649, 29702, 36027>>, <<20351, 29992, 26009>> >>

----------------------------------------------------------------------------
(* convertToFormula *)

\* descriptions given to convertToFormula are concatenations of at most this many chunks
MaxFormulaChunks == 4

HalfWidthDigits == 48..57           \* 0-9
FullWidthDigits == 65296..65305     \* ０-９
Separators == {44, 65292}           \* , and ，

\* a variant that leaves full-width digits as they are
toHalfWidthKeepWide(str) == str

\* str.replace(/[０-９]/g, s => String.fromCharCode(s.charCodeAt(0) - 0xFEE0))
toHalfWidth(str) ==
    [i \in 1..Len(str) |-> IF str[i] \in FullWidthDigits THEN str[i] - 65248 ELSE str[i]]

\* n.replace(/[,，]/g, '')
StripSeparators(n) == SelectSeq(n, LAMBDA c : c \notin Separators)

\* the substitutions are named wari (割), bu (分), percent (% ％), bai (倍), yen (円)
\* the character class of the captured run of each substitution
UnitClass(unit) ==
    IF unit = "yen" THEN HalfWidthDigits \cup FullWidthDigits \cup Separators
    ELSE HalfWidthDigits \cup FullWidthDigits

\* the characters that must follow the run
UnitMarks(unit) ==
    CASE unit = "wari" -> {21106}
      [] unit = "bu" -> {20998}
      [] unit = "percent" -> {37, 65285}
      [] unit = "bai" -> {20493}
      [] unit = "yen" -> {20870}

\* the replacement callbacks
UnitReplacement(unit, n) ==
    CASE unit = "wari" -> toHalfWidth(n) \o <<32, 42, 32, 48, 46, 49>>
      [] unit = "bu" -> toHalfWidth(n) \o <<32, 42, 32, 48, 46, 48, 49>>
      [] unit = "percent" -> toHalfWidth(n) \o <<32, 42, 32, 48, 46, 48, 49>>
      [] unit = "bai" -> <<42, 32>> \o toHalfWidth(n)
      [] unit = "yen" -> toHalfWidth(StripSeparators(n))

\* first position >= i outside the class of the unit, Len(s)+1 if none
UnitRunEnd(unit, s, i) ==
    LET rest == {j \in i..Len(s) : s[j] \notin UnitClass(unit)}
    IN  IF rest = {} THEN Len(s) + 1 ELSE Min(rest)

\* formula.replace(/(<class>+)<mark>/g, callback): the leftmost run that its mark
\* follows is replaced, and the scan goes on after the mark
RECURSIVE ReplaceUnit(_, _, _)
ReplaceUnit(unit, s, pos) ==
    LET starts == {i \in pos..Len(s) :
                      /\ s[i] \in UnitClass(unit)
                      /\ UnitRunEnd(unit, s, i) <= Len(s)
                      /\ s[UnitRunEnd(unit, s, i)] \in UnitMarks(unit)}
    IN  IF starts = {} THEN SubSeq(s, pos, Len(s))
        ELSE LET i == Min(starts)
                 r == UnitRunEnd(unit, s, i)
             IN  SubSeq(s, pos, i - 1)
                    \o UnitReplacement(unit, SubSeq(s, i, r - 1))
                    \o ReplaceUnit(unit, s, r + 1)

convertToFormula(description) ==
    LET f1 == ReplaceUnit("wari", description, 1)
        f2 == ReplaceUnit("bu", f1, 1)
        f3 == ReplaceUnit("percent", f2, 1)
        f4 == ReplaceUnit("bai", f3, 1)
    IN  ReplaceUnit("yen", f4, 1)

----------------------------------------------------------------------------
(* convertToFormula as a pure function: SpecFormula *)

FormulaChunks ==
    { <<50>>, <<51>>, <<53>>,
      <<65297, 65296>>,        \* full-width "１０"
      <<21106>>, <<20998>>, <<20493>>, <<20870>>,
      <<37>>, <<44>>,
      <<23478, 36035, 12398>> }     \* "家賃の"

FormulaTexts == TextsOf(FormulaChunks, MaxFormulaChunks)

InitFormula ==
    /\ pc = "call"
    /\ fn = "none"
    /\ arg \in FormulaTexts
    /\ ret = <<>>
    /\ NoRun

ConvertToFormula ==
    /\ pc = "call"
    /\ fn' = "convertToFormula"
    /\ ret' = <<convertToFormula(arg)>>
    /\ pc' = "ret"
    /\ UNCHANGED <<arg, runVars>>

NextFormula == ConvertToFormula

SpecFormula == InitFormula /\ [][NextFormula]_vars

\* the maximal digit runs of s that the character mark immediately follows
DigitRunsBefore(s, mark) ==
    {SubSeq(s, p[1], p[2]) : p \in
        {q \in (1..Len(s)) \X (1..Len(s)) :
            /\ q[1] <= q[2]
            /\ q[2] < Len(s)
            /\ q[1] > 1 => s[q[1] - 1] \notin HalfWidthDigits \cup FullWidthDigits
            /\ \A y \in q[1]..q[2] : s[y] \in HalfWidthDigits \cup FullWidthDigits
            /\ s[q[2] + 1] = mark}}

\* C11: a digit run d before 割 appears in the output as half-width(d) followed
\* by " * 0.1", and a digit run d before 倍 as "* " followed by half-width(d).
C11_TenthsAndMultiplier ==
    (pc = "ret" /\ fn = "convertToFormula") =>
        /\ \A d \in DigitRunsBefore(arg, 21106) :
              Includes(ret[1], toHalfWidth(d) \o <<32, 42, 32, 48, 46, 49>>)
        /\ \A d \in DigitRunsBefore(arg, 20493) :
              Includes(ret[1], <<42, 32>> \o toHalfWidth(d))

\* C11, the spec's two examples: "3割" gives "3 * 0.1" and "１０倍" gives "* 10"
C11_Examples ==
    (pc = "ret" /\ fn = "convertToFormula") =>
        /\ arg = <<51, 21106>> => ret[1] = <<51, 32, 42, 32, 48, 46, 49>>
        /\ arg = <<65297, 65296, 20493>> => ret[1] = <<42, 32, 49, 48>>

\* C11 failing input: "2割3倍" became "2 * 0.* 13"
C11_Glued ==
    /\ pc = "ret"
    /\ fn = "convertToFormula"
    /\ arg = <<50, 21106, 51, 20493>>
    /\ ret[1] = <<50, 32, 42, 32, 48, 46, 42, 32, 49, 51>>

\* C18: a digit run d before 分 appears in the output as " * 0.01" with exactly
\* half-width(d) as the digit token to its left (no digit or decimal point
\* before it), also after other unit idioms such as in "2割5分".
C18_HundredthsKeepDigits ==
    (pc = "ret" /\ fn = "convertToFormula") =>
        \A d \in DigitRunsBefore(arg, 20998) :
            \E p \in 1..Len(ret[1]) :
                /\ HasAt(ret[1], p, toHalfWidth(d) \o <<32, 42, 32, 48, 46, 48, 49>>)
                /\ p > 1 => ret[1][p - 1] \notin (48..57) \cup {46}

\* C18 failing input: "2割5分" became "2 * 0.15 * 0.01"
C18_Glued ==
    /\ pc = "ret"
    /\ fn = "convertToFormula"
    /\ arg = <<50, 21106, 53, 20998>>
    /\ ret[1] = <<50, 32, 42, 32, 48, 46, 49, 53, 32, 42, 32, 48, 46, 48, 49>>

\* C18 where it holds: "5分" alone became "5 * 0.01"
C18_Alone ==
    (pc = "ret" /\ fn = "convertToFormula" /\ arg = <<53, 20998>>) => ret[1] = <<53, 32, 42, 32, 48, 46, 48, 49>>

----------------------------------------------------------------------------
(* extractFormulas *)

\* texts given to extractFormulas are concatenations of at most this many chunks
MaxClauseChunks == 4

MinName == 5      \* {5,50}
MaxName == 50

Toka == {12289, 44}               \* the characters of [、,]
Tosuru == <<12392, 12377, 12427>>              \* "とする"
NameStops == {12290, 10}          \* the characters excluded by [^。\n]
KUTEN == 12290                    \* the character excluded by [^。]

\* the positions of は[、,] after which ([^。]+)とする matches
FormulaJoints(s) ==
    {p \in 1..(Len(s) - 1) :
        /\ s[p] = 12399
        /\ s[p + 1] \in Toka
        /\ \E e \in (p + 3)..(Len(s) - 2) :
              /\ HasAt(s, e, Tosuru)
              /\ \A y \in (p + 2)..(e - 1) : s[y] # KUTEN}

\* /([^。\n]{5,50})は[、,]([^。]+)とする/ matched at position i, joints being
\* FormulaJoints(s): both quantifiers
\* are greedy, so the name is the longest of 5 to 50 characters that reaches a
\* joint and the description runs to the last とする before the next 。
FormulaMatchAt(s, joints, i) ==
    LET ps == {p \in joints :
                  /\ p - i >= MinName
                  /\ p - i <= MaxName
                  /\ \A y \in i..(p - 1) : s[y] \notin NameStops}
        p == Max(ps)
        e == Max({x \in (p + 3)..(Len(s) - 2) :
                     /\ HasAt(s, x, Tosuru)
                     /\ \A y \in (p + 2)..(x - 1) : s[y] # KUTEN})
    IN  IF ps = {} THEN [found |-> FALSE]
        ELSE [found |-> TRUE, name |-> SubSeq(s, i, p - 1),
              desc |-> SubSeq(s, p + 2, e - 1), end |-> e + 3]

\* text.matchAll(pattern)
RECURSIVE FormulaMatchesFrom(_, _)
FormulaMatchesFrom(s, pos) ==
    LET joints == FormulaJoints(s)
        starts == {i \in pos..Len(s) : FormulaMatchAt(s, joints, i).found}
    IN  IF starts = {} THEN <<>>
        ELSE LET m == FormulaMatchAt(s, joints, Min(starts))
             IN  <<m>> \o FormulaMatchesFrom(s, m.end)

\* a variant of the test that leaves out 額
HasNumeralOrUnitNoGaku(desc) ==
    \E x \in 1..Len(desc) :
        \/ desc[x] \in HalfWidthDigits \cup FullWidthDigits
        \/ desc[x] \in {21106, 20998, 20493, 20870, 29575}

\* /[0-9０-９]|割|分|倍|円|率|額/.test(desc)
HasNumeralOrUnit(desc) ==
    \E x \in 1..Len(desc) :
        \/ desc[x] \in HalfWidthDigits \cup FullWidthDigits
        \/ desc[x] \in {21106, 20998, 20493, 20870, 29575, 38989}

\* for (const match of matches) { ... if (test) formulas.push({...}) }
RECURSIVE FormulasOf(_)
FormulasOf(ms) ==
    IF ms = <<>> THEN <<>>
    ELSE LET name == Trim(Head(ms).name)
             desc == Trim(Head(ms).desc)
         IN  (IF HasNumeralOrUnit(desc)
              THEN <<[name |-> name, description |-> desc,
                      formula |-> convertToFormula(desc),
                      variables |-> extractVariables(desc)]>>
              ELSE <<>>) \o FormulasOf(Tail(ms))

extractFormulas(text) == FormulasOf(FormulaMatchesFrom(text, 1))

----------------------------------------------------------------------------
(* extractFormulas as a pure function: SpecFormulas *)

LongClause == [i \in 1..46 |-> 12354]     \* 46 times "あ"

ClauseChunks ==
    { <<20303, 23429, 12398, 20351, 29992, 26009, 12399, 12289, 26376, 38989, 12398, 51, 21106, 12392, 12377, 12427, 12290>>,
      <<31038, 23429, 12398, 31649, 29702, 36027, 12399, 44, 21029, 12395, 23450, 12417, 12427, 12392, 12377, 12427>>,
      <<20303, 23429, 12398, 20351, 29992, 26009>>,
      <<12399, 12289>>,
      <<38989>>,
      <<12392, 12377, 12427>>,
      <<12290>>,
      LongClause }

ClauseTexts == TextsOf(ClauseChunks, MaxClauseChunks)

InitFormulas ==
    /\ pc = "call"
    /\ fn = "none"
    /\ arg \in ClauseTexts
    /\ ret = <<>>
    /\ NoRun

ExtractFormulas ==
    /\ pc = "call"
    /\ fn' = "extractFormulas"
    /\ ret' = <<extractFormulas(arg)>>
    /\ pc' = "ret"
    /\ UNCHANGED <<arg, runVars>>

NextFormulas == ExtractFormulas

SpecFormulas == InitFormulas /\ [][NextFormulas]_vars

\* the filter as the claim words it: a digit or one of 割 分 倍 円 率 額
C12_Filter(desc) ==
    \E x \in 1..Len(desc) :
        \/ desc[x] \in 48..57
        \/ desc[x] \in 65296..65305
        \/ desc[x] \in {21106, 20998, 20493, 20870, 29575, 38989}

\* C12: the formulas returned are, in order, exactly the matches of
\* '<5-50 character clause>は、<description>とする' whose description holds a
\* digit or one of 割 分 倍 円 率 額; every other match is dropped.
C12_EmittedIffFilter ==
    (pc = "ret" /\ fn = "extractFormulas") =>
        LET ms == FormulaMatchesFrom(arg, 1)
            kept == SelectSeq(ms, LAMBDA m : C12_Filter(m.desc))
        IN  /\ Len(ret[1]) = Len(kept)
            /\ \A k \in 1..Len(kept) :
                  /\ ret[1][k].name = Trim(kept[k].name)
                  /\ ret[1][k].description = Trim(kept[k].desc)
            /\ \A k \in 1..Len(ret[1]) : C12_Filter(ret[1][k].description)

\* C12 witness: of the two matches in "社宅の管理費は,別に定めるとする。住宅の使用料は、
\* 月額の3割とする。" the first, without numeral or unit, was dropped and the second kept
C12_Witness ==
    /\ pc = "ret"
    /\ fn = "extractFormulas"
    /\ Len(FormulaMatchesFrom(arg, 1)) = 2
    /\ ~C12_Filter(FormulaMatchesFrom(arg, 1)[1].desc)
    /\ Len(ret[1]) = 1
    /\ ret[1][1].name = <<20303, 23429, 12398, 20351, 29992, 26009>>
    /\ ret[1][1].description = <<26376, 38989, 12398, 51, 21106>>
    /\ ret[1][1].formula = <<26376, 38989, 12398, 51, 32, 42, 32, 48, 46, 49>>

----------------------------------------------------------------------------
(* extractFees *)

\* texts given to extractFees are concatenations of at most this many chunks
MaxFeeChunks == 4

YEN == 20870                                  \* 円
FeeSuffixes == { <<36027>>, <<26009>>, <<37329>>, <<25163, 24403>> }    \* 費 料 金 手当
FeeParticles == {12399, 12434}                \* the characters of [はを]

\* the positions where (?:費|料|金|手当)[はを][、,] stands with a character of
\* [^。] after it, as records [at, len] of the suffix
FeeJoints(s) ==
    {j \in [at : 1..Len(s), len : {1, 2}] :
        /\ \E suffix \in FeeSuffixes : Len(suffix) = j.len /\ HasAt(s, j.at, suffix)
        /\ j.at + j.len + 2 <= Len(s)
        /\ s[j.at + j.len] \in FeeParticles
        /\ s[j.at + j.len + 1] \in Toka
        /\ s[j.at + j.len + 2] # KUTEN}

\* /([^。\n]+(?:費|料|金|手当))[はを][、,]([^。]+)/ matched at position i, joints
\* being FeeJoints(s): the name is greedy and reaches the last joint of its
\* line, the description runs to the next 。 or the end of the text
FeeMatchAt(s, joints, i) ==
    LET js == {j \in joints :
                  /\ j.at > i
                  /\ \A y \in i..(j.at - 1) : s[y] \notin NameStops}
        j == CHOOSE x \in js : \A y \in js : y.at <= x.at
        g == j.at + j.len + 2
        stops == {x \in g..Len(s) : s[x] = KUTEN}
        e == IF stops = {} THEN Len(s) + 1 ELSE Min(stops)
    IN  IF js = {} THEN [found |-> FALSE]
        ELSE [found |-> TRUE, name |-> SubSeq(s, i, j.at + j.len - 1),
              desc |-> SubSeq(s, g, e - 1), end |-> e]

\* text.matchAll(pattern)
RECURSIVE FeeMatchesFrom(_, _)
FeeMatchesFrom(s, pos) ==
    LET joints == FeeJoints(s)
        starts == {i \in pos..Len(s) : FeeMatchAt(s, joints, i).found}
    IN  IF starts = {} THEN <<>>
        ELSE LET m == FeeMatchAt(s, joints, Min(starts))
             IN  <<m>> \o FeeMatchesFrom(s, m.end)

\* desc.match(/([0-9０-９,，]+)\s*円/): the captured run of the leftmost match,
\* <<>> when there is no match (the capture is <<run>>)
AmountMatch(desc) ==
    LET starts == {i \in 1..Len(desc) :
                      /\ desc[i] \in UnitClass("yen")
                      /\ SkipSpaces(desc, UnitRunEnd("yen", desc, i)) <= Len(desc)
                      /\ desc[SkipSpaces(desc, UnitRunEnd("yen", desc, i))] = YEN}
    IN  IF starts = {} THEN <<>>
        ELSE <<SubSeq(desc, Min(starts), UnitRunEnd("yen", desc, Min(starts)) - 1)>>

\* amountMatch ? toHalfWidth(amountMatch[1].replace(/[,，]/g, '')) : undefined
AmountOf(desc) ==
    IF AmountMatch(desc) = <<>> THEN <<>>
    ELSE <<toHalfWidth(StripSeparators(AmountMatch(desc)[1]))>>

\* for (const match of matches) fees.push({name, description, amount})
FeesOf(ms) ==
    [k \in 1..Len(ms) |->
        [name |-> Trim(ms[k].name),
         description |-> Trim(ms[k].desc),
         amount |-> AmountOf(Trim(ms[k].desc))]]

extractFees(text) == FeesOf(FeeMatchesFrom(text, 1))

----------------------------------------------------------------------------
(* extractFees as a pure function: SpecFees *)

FeeChunks ==
    { <<31649, 29702, 36027, 12399, 12289>>,
      <<12290, 20303, 23429, 25163, 24403, 12434, 44, 26376, 38989>>,
      <<49, 44, 48, 48, 48>>,
      <<65301, 65292, 65296, 65296, 65296>>,      \* full-width "５，０００"
      <<20870>>,
      <<32>>,
      <<12290>>,
      <<26376, 38989>> }

FeeTexts == TextsOf(FeeChunks, MaxFeeChunks)

InitFees ==
    /\ pc = "call"
    /\ fn = "none"
    /\ arg \in FeeTexts
    /\ ret = <<>>
    /\ NoRun

ExtractFees ==
    /\ pc = "call"
    /\ fn' = "extractFees"
    /\ ret' = <<extractFees(arg)>>
    /\ pc' = "ret"
    /\ UNCHANGED <<arg, runVars>>

NextFees == ExtractFees

SpecFees == InitFees /\ [][NextFees]_vars

\* the digits of a run of digits and separators, each as its half-width digit
C13_Digits(run) ==
    LET ds == SelectSeq(run, LAMBDA c : c \in (48..57) \cup (65296..65305))
    IN  [x \in 1..Len(ds) |-> IF ds[x] >= 65296 THEN ds[x] - 65296 + 48 ELSE ds[x]]

\* the maximal runs of digits and separators in s, as pairs <<first, last>>
C13_Runs(s) ==
    LET C == (48..57) \cup (65296..65305) \cup {44, 65292}
    IN  {q \in (1..Len(s)) \X (1..Len(s)) :
            /\ q[1] <= q[2]
            /\ \A y \in q[1]..q[2] : s[y] \in C
            /\ q[1] > 1 => s[q[1] - 1] \notin C
            /\ q[2] < Len(s) => s[q[2] + 1] \notin C}

\* the first run of s among the given ones
C13_First(s, runs) ==
    LET q == CHOOSE x \in runs : \A y \in runs : x[1] <= y[1]
    IN  SubSeq(s, q[1], q[2])

\* C13 as claimed: a present amount holds only half-width digits and is the
\* digits of the first run of digits and separators that 円 immediately follows
\* in the item's description.
C13_AmountOfFirstYenRun ==
    (pc = "ret" /\ fn = "extractFees") =>
        \A k \in 1..Len(ret[1]) :
            LET fee == ret[1][k]
                runs == {q \in C13_Runs(fee.description) :
                            /\ q[2] < Len(fee.description)
                            /\ fee.description[q[2] + 1] = 20870}
            IN  fee.amount # <<>> =>
                    /\ \A x \in 1..Len(fee.amount[1]) : fee.amount[1][x] \in 48..57
                    /\ runs # {}
                    /\ fee.amount[1] = C13_Digits(C13_First(fee.description, runs))

\* C13 amended: a present amount holds only half-width digits and is the digits
\* of the first run of digits and separators that 円 follows, immediately or
\* after whitespace, in the item's description.
C13_AmountOfFirstYenRunSpaced ==
    (pc = "ret" /\ fn = "extractFees") =>
        \A k \in 1..Len(ret[1]) :
            LET fee == ret[1][k]
                d == fee.description
                runs == {q \in C13_Runs(d) :
                            \E z \in (q[2] + 1)..Len(d) :
                                /\ d[z] = 20870
                                /\ \A y \in (q[2] + 1)..(z - 1) : IsSpace(d[y])}
            IN  fee.amount # <<>> =>
                    /\ \A x \in 1..Len(fee.amount[1]) : fee.amount[1][x] \in 48..57
                    /\ runs # {}
                    /\ fee.amount[1] = C13_Digits(C13_First(d, runs))

\* C13 witness: "管理費は、月額５，０００円" gave the amount "5000"
C13_Witness ==
    /\ pc = "ret"
    /\ fn = "extractFees"
    /\ arg = <<31649, 29702, 36027, 12399, 12289, 26376, 38989, 65301, 65292, 65296, 65296, 65296, 20870>>
    /\ Len(ret[1]) = 1
    /\ ret[1][1].name = <<31649, 29702, 36027>>
    /\ ret[1][1].amount = << <<53, 48, 48, 48>> >>

----------------------------------------------------------------------------
(* extractInputItems *)

\* texts given to extractInputItems are concatenations of at most this many chunks
MaxDefChunks == 4

Towa == <<12392, 12399>>                                  \* "とは"
DefNameStops == OpenQuotes \cup CloseQuotes \cup {10}   \* the characters excluded by [^「『」』\n]

\* a variant in which the description runs to the end of the text
DefDescEndOfText(s, g) == Len(s) + 1

\* ([^。]+) from position g: the position after its last character
DefDescEnd(s, g) ==
    LET stops == {x \in g..Len(s) : s[x] = KUTEN}
    IN  IF stops = {} THEN Len(s) + 1 ELSE Min(stops)

\* where とは starts when the name ends just before position t: after the
\* closing quote [」』]? if one stands at t
DefTowaAt(s, t) == IF t <= Len(s) /\ s[t] \in CloseQuotes THEN t + 1 ELSE t

\* the positions t where [」』]?とは[、,] stands with a character of [^。] after it
DefJoints(s) ==
    {t \in 1..Len(s) :
        LET u == DefTowaAt(s, t)
        IN  /\ HasAt(s, u, Towa)
            /\ u + 3 <= Len(s)
            /\ s[u + 2] \in Toka
            /\ s[u + 3] # KUTEN}

\* /[「『]?([^「『」』\n]+)[」』]?とは[、,]([^。]+)/ matched at position i, joints
\* being DefJoints(s): an opening quote at i is consumed, the name is greedy
\* and reaches the last joint it can, the description runs to the next 。
DefMatchAt(s, joints, i) ==
    LET a == IF s[i] \in OpenQuotes THEN i + 1 ELSE i
        ts == {t \in joints :
                  /\ t > a
                  /\ \A y \in a..(t - 1) : s[y] \notin DefNameStops}
        t == Max(ts)
        g == DefTowaAt(s, t) + 3
    IN  IF ts = {} THEN [found |-> FALSE]
        ELSE [found |-> TRUE, name |-> SubSeq(s, a, t - 1),
              desc |-> SubSeq(s, g, DefDescEnd(s, g) - 1), end |-> DefDescEnd(s, g)]

\* text.matchAll(pattern)
RECURSIVE DefMatchesFrom(_, _)
DefMatchesFrom(s, pos) ==
    LET joints == DefJoints(s)
        starts == {i \in pos..Len(s) : DefMatchAt(s, joints, i).found}
    IN  IF starts = {} THEN <<>>
        ELSE LET m == DefMatchAt(s, joints, Min(starts))
             IN  <<m>> \o DefMatchesFrom(s, m.end)

\* for (const match of matches) items.push({category, name, description, inputType})
InputItemsOf(ms) ==
    [k \in 1..Len(ms) |->
        [category |-> <<23450, 32681>>,
         name |-> Trim(ms[k].name),
         description |-> Trim(ms[k].desc),
         inputType |-> <<116, 101, 120, 116>>]]

extractInputItems(text) == InputItemsOf(DefMatchesFrom(text, 1))

----------------------------------------------------------------------------
(* extractInputItems as a pure function: SpecItems *)

ExampleDefinition == <<12300, 20303, 23429, 12301, 12392, 12399, 12289, 31038, 21729, 12364, 23621, 20303, 12377, 12427, 24314, 29289, 12434, 12356, 12358, 12290>>

DefChunks ==
    { ExampleDefinition,
      <<12300>>,
      <<12303>>,
      <<20303, 23429>>,
      <<12392, 12399, 44>>,
      <<12434, 12356, 12358>>,
      <<12290>>,
      <<10>> }

DefTexts == TextsOf(DefChunks, MaxDefChunks)

InitItems ==
    /\ pc = "call"
    /\ fn = "none"
    /\ arg \in DefTexts
    /\ ret = <<>>
    /\ NoRun

ExtractInputItems ==
    /\ pc = "call"
    /\ fn' = "extractInputItems"
    /\ ret' = <<extractInputItems(arg)>>
    /\ pc' = "ret"
    /\ UNCHANGED <<arg, runVars>>

NextItems == ExtractInputItems

SpecItems == InitItems /\ [][NextItems]_vars

\* C14: '「住宅」とは、社員が居住する建物をいう。' gives exactly one item, category
\* '定義', name '住宅', description '社員が居住する建物をいう'; every item returned has
\* category '定義', inputType 'text', a name without quote brackets or newlines
\* and a description without '。'.
C14_DefinitionItems ==
    (pc = "ret" /\ fn = "extractInputItems") =>
        /\ arg = <<12300, 20303, 23429, 12301, 12392, 12399, 12289, 31038, 21729, 12364, 23621, 20303, 12377, 12427, 24314, 29289, 12434, 12356, 12358, 12290>> =>
              /\ Len(ret[1]) = 1
              /\ ret[1][1].category = <<23450, 32681>>
              /\ ret[1][1].name = <<20303, 23429>>
              /\ ret[1][1].description = <<31038, 21729, 12364, 23621, 20303, 12377, 12427, 24314, 29289, 12434, 12356, 12358>>
        /\ \A k \in 1..Len(ret[1]) :
              /\ ret[1][k].category = <<23450, 32681>>
              /\ ret[1][k].inputType = <<116, 101, 120, 116>>
              /\ \A x \in 1..Len(ret[1][k].name) :
                    ret[1][k].name[x] \notin {12300, 12302, 12301, 12303, 10}
              /\ \A x \in 1..Len(ret[1][k].description) :
                    ret[1][k].description[x] # 12290

\* C14 witness: the example text followed by "住宅とは,をいう" gave two items, the
\* second name starting at the 。 that ended the first description
C14_Witness ==
    /\ pc = "ret"
    /\ fn = "extractInputItems"
    /\ arg = <<12300, 20303, 23429, 12301, 12392, 12399, 12289, 31038, 21729, 12364, 23621, 20303, 12377, 12427, 24314, 29289, 12434, 12356, 12358, 12290, 20303, 23429, 12392, 12399, 44, 12434, 12356, 12358>>
    /\ Len(ret[1]) = 2
    /\ ret[1][1].name = <<20303, 23429>>
    /\ ret[1][1].description = <<31038, 21729, 12364, 23621, 20303, 12377, 12427, 24314, 29289, 12434, 12356, 12358>>
    /\ ret[1][2].name = <<12290, 20303, 23429>>
    /\ ret[1][2].description = <<12434, 12356, 12358>>

----------------------------------------------------------------------------
(* The four heuristic scans over one text: SpecScans *)

\* scanned texts are concatenations of at most this many sample sentences
MaxScanChunks == 2

DefaultTitle == <<35201, 20214, 23450, 32681, 26360>>

\* const titleMatch = text.match(/^([^\n]+)/); titleMatch ? titleMatch[1].trim() : '要件定義書'
DocumentTitle(text) ==
    IF text # <<>> /\ text[1] # NL
    THEN LET stops == {x \in 1..Len(text) : text[x] = NL}
         IN  Trim(SubSeq(text, 1, (IF stops = {} THEN Len(text) + 1 ELSE Min(stops)) - 1))
    ELSE DefaultTitle

ScanChunks ==
    { ExampleDefinition,
      <<20303, 23429, 12398, 20351, 29992, 26009, 12399, 12289, 26376, 38989, 49, 44, 48, 48, 48, 20870, 12392, 12377, 12427, 12290, 21029, 34920, 50, 32, 25163, 24403, 10, 49, 32026, 32, 53, 48, 10>>,
      <<21029, 34920, 49, 32, 23478, 36035, 10, 49, 32026, 32, 49, 48, 48, 10, 20184, 21063, 10>> }

ScanTexts == TextsOf(ScanChunks, MaxScanChunks)

\* the fields of ExtractedRequirements, none of them computed yet
NoResults ==
    [documentTitle |-> <<>>, inputItems |-> <<>>, calculationItems |-> <<>>,
     formulas |-> <<>>, fees |-> <<>>, otherRequirements |-> <<>>, tables |-> <<>>]

\* a text layer of more than JAPANESE_CHAR_THRESHOLD Japanese-script characters
LongScanText ==
    Flatten(<<ExampleDefinition, ExampleDefinition, ExampleDefinition, ExampleDefinition>>)

\* the buffers extractRequirementsFromPDF is called on, as what pdf-parse reads
\* out of them
ScanBuffers ==
    [ok : {TRUE}, text : ScanTexts \cup {LongScanText}, numpages : {1},
     Title : {<<>>}, Author : {<<>>}]
    \cup
    [ok : {FALSE}, text : {<<>>}, numpages : {0}, Title : {<<>>}, Author : {<<>>}]

scanFrame == <<pc, arg, entry, buffer, apiKey, data, vision, result, thrown, calls, cause>>

\* either single scans are called on a text (pc = "scan"), or
\* extractRequirementsFromPDF(buffer) is called, in pdfParser.ts ("server") or
\* in excelGenerator.ts ("orchestrator"); its first step is the call of
\* parsePDFBuffer(buffer)
InitScans ==
    \/ /\ pc = "scan"
       /\ fn = "none"
       /\ arg \in ScanTexts
       /\ ret = NoResults
       /\ NoRun
    \/ /\ pc = "start"
       /\ fn = "extractRequirementsFromPDF"
       /\ arg = <<>>
       /\ ret = NoResults
       /\ entry \in {"server", "orchestrator"}
       /\ buffer \in ScanBuffers
       /\ apiKey \in SUBSET EnvKeys
       /\ data = <<>>
       /\ vision = <<>>
       /\ result = <<>>
       /\ thrown = <<>>
       /\ calls = <<>>
       /\ cause = <<>>

ScanInputItems ==
    /\ pc = "scan"
    /\ fn' = "extractInputItems"
    /\ ret' = [ret EXCEPT !.inputItems = <<extractInputItems(arg)>>]
    /\ UNCHANGED scanFrame

ScanFormulas ==
    /\ pc = "scan"
    /\ fn' = "extractFormulas"
    /\ ret' = [ret EXCEPT !.formulas = <<extractFormulas(arg)>>]
    /\ UNCHANGED scanFrame

\* a variant that raises an error when the scan finds no match
ScanFeesThrowing ==
    /\ pc = "scan"
    /\ fn' = "extractFees"
    /\ IF FeeMatchesFrom(arg, 1) = <<>>
       THEN thrown' = <<"no match">> /\ ret' = ret
       ELSE thrown' = thrown /\ ret' = [ret EXCEPT !.fees = <<extractFees(arg)>>]
    /\ UNCHANGED <<pc, arg, entry, buffer, apiKey, data, vision, result, calls, cause>>

ScanFees ==
    /\ pc = "scan"
    /\ fn' = "extractFees"
    /\ ret' = [ret EXCEPT !.fees = <<extractFees(arg)>>]
    /\ UNCHANGED scanFrame

ScanTables ==
    /\ pc = "scan"
    /\ fn' = "extractTables"
    /\ ret' = [ret EXCEPT !.tables = <<extractTables(arg)>>]
    /\ UNCHANGED scanFrame

\* extractRequirementsFromPDF after `await parsePDFBuffer(buffer)` has resumed
\* with the document: the title, then the scans in the order of the returned
\* object literal, over parsed.rawText.  A rejection of parsePDFBuffer is the
\* rejection of extractRequirementsFromPDF (pc = "failed", thrown).
ExtractRequirements ==
    /\ pc = "done"
    /\ LET text == result[1].rawText
       IN  ret' = [documentTitle |-> <<DocumentTitle(text)>>,
                   inputItems |-> <<extractInputItems(text)>>,
                   calculationItems |-> << <<>> >>,
                   formulas |-> <<extractFormulas(text)>>,
                   fees |-> <<extractFees(text)>>,
                   otherRequirements |-> << <<>> >>,
                   tables |-> <<extractTables(text)>>]
    /\ pc' = "returned"
    /\ UNCHANGED <<fn, arg, entry, buffer, apiKey, data, vision, result, thrown, calls, cause>>

NextScans ==
    \/ ScanInputItems
    \/ ScanFormulas
    \/ ScanFees
    \/ ScanTables
    \/ PdfCall
    \/ PdfParse
    \/ PdfParseFail
    \/ LegacyReturn
    \/ NativeReturn
    \/ Fallback
    \/ VisionNoKey
    \/ VisionCall
    \/ VisionOk
    \/ VisionFail
    \/ ExtractRequirements

SpecScans == InitScans /\ [][NextScans]_vars

\* the text the scans have been given: the argument of the single calls, or
\* the rawText of the document extractRequirementsFromPDF parsed
C15_Text == IF pc = "scan" THEN arg ELSE result[1].rawText

\* C15: no scan raises an error; on the empty text, and on any text in which a
\* scan's pattern has no match, the scan returns the empty collection.  The
\* only errors of extractRequirementsFromPDF are those of parsePDFBuffer,
\* raised before any scan.
C15_NoMatchIsEmptyNotError ==
    /\ pc \in {"scan", "returned"} =>
        /\ thrown = <<>>
        /\ (ret.inputItems # <<>> /\ (C15_Text = <<>> \/ DefMatchesFrom(C15_Text, 1) = <<>>))
              => ret.inputItems[1] = <<>>
        /\ (ret.formulas # <<>> /\ (C15_Text = <<>> \/ FormulaMatchesFrom(C15_Text, 1) = <<>>))
              => ret.formulas[1] = <<>>
        /\ (ret.fees # <<>> /\ (C15_Text = <<>> \/ FeeMatchesFrom(C15_Text, 1) = <<>>))
              => ret.fees[1] = <<>>
        /\ (ret.tables # <<>> /\ (C15_Text = <<>> \/ TableMatchesFrom(C15_Text, 1) = <<>>))
              => ret.tables[1] = <<>>
    /\ thrown # <<>> => (pc = "failed" /\ result = <<>> /\ ret = NoResults)

\* C15 witness: each of the four scans has been called on the empty text and
\* returned empty
C15_Witness ==
    /\ pc = "scan"
    /\ arg = <<>>
    /\ ret.documentTitle = <<>>
    /\ ret.inputItems = << <<>> >>
    /\ ret.formulas = << <<>> >>
    /\ ret.fees = << <<>> >>
    /\ ret.tables = << <<>> >>
    /\ thrown = <<>>

\* C15 witness of the general case: on a text with a definition but nothing
\* else to find, the other three scans returned empty
C15_WitnessNoMatch ==
    /\ pc = "scan"
    /\ arg = ExampleDefinition
    /\ ret.inputItems # <<>> /\ ret.inputItems[1] # <<>>
    /\ ret.formulas = << <<>> >>
    /\ ret.fees = << <<>> >>
    /\ ret.tables = << <<>> >>

\* C15 witness of extractRequirementsFromPDF: pdf-parse read the empty text and
\* the object returned holds four empty collections and the default title
C15_WitnessEmptyDocument ==
    /\ pc = "returned"
    /\ calls = <<"pdf">>
    /\ result[1].rawText = <<>>
    /\ ret.documentTitle = <<DefaultTitle>>
    /\ ret.inputItems = << <<>> >>
    /\ ret.formulas = << <<>> >>
    /\ ret.fees = << <<>> >>
    /\ ret.tables = << <<>> >>

\* C17 (the four scans are order-independent) has no formula here.  Each scan
\* of the source declares its regular expression and its result array inside
\* the call and reads nothing but its string argument, so the scans of this
\* module are operators of the text alone: every formula that compares a
\* scan's result after other scans with its result on the text compares an
\* operator with itself and holds whatever the scans compute.

----------------------------------------------------------------------------
(* POST /api/generate and POST /api/preview: SpecRequest *)

\* a request uploads at most this many files (multer accepts up to 5)
MaxFiles == 3

\* the files a request can hold: two readable PDFs and a broken one
UploadFiles ==
    { [originalname |-> <<97, 46, 112, 100, 102>>, ok |-> TRUE, text |-> <<23478, 36035>>, numpages |-> 1,
       Title |-> <<>>, Author |-> <<>>],
      [originalname |-> <<98, 46, 112, 100, 102>>, ok |-> TRUE, text |-> <<25163, 24403>>, numpages |-> 1,
       Title |-> <<>>, Author |-> <<>>],
      [originalname |-> <<99, 46, 112, 100, 102>>, ok |-> FALSE, text |-> <<>>, numpages |-> 0,
       Title |-> <<>>, Author |-> <<>>] }

Uploads == UNION {[1..n -> UploadFiles] : n \in 0..MaxFiles}

\* the rejections of model.generateContent tried in a request
RequestErrors ==
    {e \in VisionErrors : e.message \in { <<102, 101, 116, 99, 104, 32, 102, 97, 105, 108, 101, 100>>, <<98, 111, 111, 109>> } /\ e.status \in {<<>>, <<503>>}}

\* messages of the Errors workbook.xlsx.writeBuffer() rejects with
WriteErrors == { <<119, 114, 105, 116, 101, 32, 102, 97, 105, 108, 101, 100>>, <<65, 114, 114, 97, 121, 32, 98, 117, 102, 102, 101, 114, 32, 97, 108, 108, 111, 99, 97, 116, 105, 111, 110, 32, 102, 97, 105, 108, 101, 100>> }

NoFilesMessage == <<80, 68, 70, 12501, 12449, 12452, 12523, 12364, 12450, 12483, 12503, 12525, 12540, 12489, 12373, 12428, 12390, 12356, 12414, 12379, 12435>>
NoKeyMessage == <<71, 69, 77, 73, 78, 73, 95, 65, 80, 73, 95, 75, 69, 89, 32, 12414, 12383, 12399, 32, 71, 79, 79, 71, 76, 69, 95, 65, 80, 73, 95, 75, 69, 89, 32, 29872, 22659, 22793, 25968, 12434, 35373, 23450, 12375, 12390, 12367, 12384, 12373, 12356>>
NoJsonMessage == <<65, 73, 12363, 12425, 12398, 24540, 31572, 12434, 74, 83, 79, 78, 12392, 12375, 12390, 35299, 26512, 12391, 12365, 12414, 12379, 12435, 12391, 12375, 12383>>

\* `\n\n=== ${pdf.filename} ===\n\n${pdf.text}`
PdfSection(pdf) == <<10, 10, 61, 61, 61, 32>> \o pdf.filename \o <<32, 61, 61, 61, 10, 10>> \o pdf.text

\* a variant that joins the sections in reverse order
RECURSIVE JoinSectionsReversed(_)
JoinSectionsReversed(pdfTexts) ==
    IF pdfTexts = <<>> THEN <<>>
    ELSE IF Len(pdfTexts) = 1 THEN PdfSection(pdfTexts[1])
    ELSE JoinSectionsReversed(Tail(pdfTexts)) \o <<NL>> \o PdfSection(Head(pdfTexts))

\* pdfTexts.map(...).join('\n')
RECURSIVE JoinSections(_)
JoinSections(pdfTexts) ==
    IF pdfTexts = <<>> THEN <<>>
    ELSE IF Len(pdfTexts) = 1 THEN PdfSection(pdfTexts[1])
    ELSE PdfSection(Head(pdfTexts)) \o <<NL>> \o JoinSections(Tail(pdfTexts))

\* the text given to extractRequirements: the one text, or
\* extractFromMultiplePDFs' combinedText
RequestText(pdfTexts) ==
    IF Len(pdfTexts) = 1 THEN pdfTexts[1].text ELSE JoinSections(pdfTexts)

\* the first { of the answer that a } follows, up to the last }:
\* text.match(/\{[\s\S]*\}/)
JsonMatch(text) ==
    LET closes == {j \in 1..Len(text) : text[j] = 125}
        opens == {i \in 1..Len(text) : text[i] = 123 /\ \E j \in closes : j > i}
    IN  IF opens = {} THEN <<>> ELSE <<SubSeq(text, Min(opens), Max(closes))>>

\* the top-level properties of AIExtractedRequirements
RequirementKeys ==
    {"documentTitle", "documentType", "summary", "inputItems", "calculationRules",
     "feeStructure", "tables", "additionalNotes"}

\* answers of the model: the text, and what JSON.parse makes of the part that
\* JsonMatch cuts out of it: <<>> for a SyntaxError, or the object, given by its
\* top-level properties (the arrays among them empty)
AiAnswers ==
    { [text |-> <<79, 75>>, json |-> <<>>],
      [text |-> <<125, 32, 123>>, json |-> <<>>],          \* "} {"
      [text |-> <<123, 120, 125>>, json |-> <<>>],         \* "{x}"
      [text |-> <<96, 96, 96, 106, 115, 111, 110, 10>> \o <<123, 125>> \o <<10, 96, 96, 96>>, json |-> <<{}>>],
      [text |-> <<123, 34, 105, 110, 112, 117, 116, 73, 116, 101, 109, 115, 34, 58, 91, 93, 125>>,       \* {"inputItems":[]}
       json |-> <<{"inputItems"}>>],
      \* {"documentTitle":"t","documentType":"d","summary":"s","inputItems":[],
      \*  "calculationRules":[],"feeStructure":[],"tables":[],"additionalNotes":[]}
      [text |-> <<123, 34, 100, 111, 99, 117, 109, 101, 110, 116, 84, 105, 116, 108, 101, 34, 58, 34, 116, 34, 44, 34, 100, 111, 99, 117, 109, 101, 110, 116, 84, 121, 112, 101, 34, 58, 34, 100, 34, 44, 34, 115, 117, 109, 109, 97, 114, 121, 34, 58, 34, 115, 34, 44, 34, 105, 110, 112, 117, 116, 73, 116, 101, 109, 115, 34, 58, 91, 93, 44, 34, 99, 97, 108, 99, 117, 108, 97, 116, 105, 111, 110, 82, 117, 108, 101, 115, 34, 58, 91, 93, 44, 34, 102, 101, 101, 83, 116, 114, 117, 99, 116, 117, 114, 101, 34, 58, 91, 93, 44, 34, 116, 97, 98, 108, 101, 115, 34, 58, 91, 93, 44, 34, 97, 100, 100, 105, 116, 105, 111, 110, 97, 108, 78, 111, 116, 101, 115, 34, 58, 91, 93, 125>>,
       json |-> <<RequirementKeys>>] }

\* String(e) of the SyntaxError of JSON.parse('{x}'), as the releases of the
\* engine word it
SyntaxErrorTexts ==
    { <<83, 121, 110, 116, 97, 120, 69, 114, 114, 111, 114, 58, 32, 85, 110, 101, 120, 112, 101, 99, 116, 101, 100, 32, 116, 111, 107, 101, 110, 32, 120, 32, 105, 110, 32, 74, 83, 79, 78, 32, 97, 116, 32, 112, 111, 115, 105, 116, 105, 111, 110, 32, 49>>,
      <<83, 121, 110, 116, 97, 120, 69, 114, 114, 111, 114, 58, 32, 69, 120, 112, 101, 99, 116, 101, 100, 32, 112, 114, 111, 112, 101, 114, 116, 121, 32, 110, 97, 109, 101, 32, 111, 114, 32, 39, 125, 39, 32, 105, 110, 32, 74, 83, 79, 78, 32, 97, 116, 32, 112, 111, 115, 105, 116, 105, 111, 110, 32, 49>>,
      <<83, 121, 110, 116, 97, 120, 69, 114, 114, 111, 114, 58, 32, 69, 120, 112, 101, 99, 116, 101, 100, 32, 112, 114, 111, 112, 101, 114, 116, 121, 32, 110, 97, 109, 101, 32, 111, 114, 32, 39, 125, 39, 32, 105, 110, 32, 74, 83, 79, 78, 32, 97, 116, 32, 112, 111, 115, 105, 116, 105, 111, 110, 32, 49, 32, 40, 108, 105, 110, 101, 32, 49, 32, 99, 111, 108, 117, 109, 110, 32, 50, 41>> }

\* `JSON解析エラー: ${e}`
JsonErrorMessage(e) == <<74, 83, 79, 78, 35299, 26512, 12456, 12521, 12540, 58, 32>> \o e

\* generateRequirementsExcel reads, in this order, inputItems.reduce,
\* calculationRules.length, feeStructure.reduce, tables.length (createSummarySheet)
\* and additionalNotes.length: the method read of the first property that the
\* object lacks, <<>> when it lacks none
MissingProperty(keys) ==
    IF "inputItems" \notin keys THEN <<<<114, 101, 100, 117, 99, 101>>>>
    ELSE IF "calculationRules" \notin keys THEN <<<<108, 101, 110, 103, 116, 104>>>>
    ELSE IF "feeStructure" \notin keys THEN <<<<114, 101, 100, 117, 99, 101>>>>
    ELSE IF "tables" \notin keys THEN <<<<108, 101, 110, 103, 116, 104>>>>
    ELSE IF "additionalNotes" \notin keys THEN <<<<108, 101, 110, 103, 116, 104>>>>
    ELSE <<>>

\* the TypeError of reading a method of undefined
TypeErrorMessage(prop) ==
    <<67, 97, 110, 110, 111, 116, 32, 114, 101, 97, 100, 32, 112, 114, 111, 112, 101, 114, 116, 105, 101, 115, 32, 111, 102, 32, 117, 110, 100, 101, 102, 105, 110, 101, 100, 32, 40, 114, 101, 97, 100, 105, 110, 103, 32, 39>> \o prop \o <<39, 41>>

InitRequest ==
    /\ pc = "files"
    /\ entry \in {"/api/generate", "/api/preview"}
    /\ buffer \in Uploads
    /\ apiKey \in SUBSET EnvKeys
    /\ data = <<>>
    /\ vision = <<>>
    /\ result = <<>>
    /\ thrown = <<>>
    /\ calls = <<>>
    /\ cause = <<>>
    /\ NoCall

\* if (!files || files.length === 0) return res.status(400).json(...)
NoFiles ==
    /\ pc = "files"
    /\ buffer = <<>>
    /\ result' = <<[status |-> 400, error |-> <<NoFilesMessage>>]>>
    /\ pc' = "done"
    /\ UNCHANGED <<entry, buffer, apiKey, data, vision, thrown, calls, cause, fn, arg, ret>>

HasFiles ==
    /\ pc = "files"
    /\ buffer # <<>>
    /\ pc' = "loop"
    /\ UNCHANGED <<entry, buffer, apiKey, data, vision, result, thrown, calls, cause, fn, arg, ret>>

\* one turn of for (const file of files): parsePDFBuffer(file.buffer) is called,
\* it calls pdf(buffer), and the handler is suspended at the await
ParseCall ==
    /\ pc = "loop"
    /\ Len(data) < Len(buffer)
    /\ calls' = Append(calls, "pdf")
    /\ pc' = "parsing"
    /\ UNCHANGED <<entry, buffer, apiKey, data, vision, result, thrown, cause, fn, arg, ret>>

\* parsePDFBuffer resolves, the text is pushed
ParseFile ==
    /\ pc = "parsing"
    /\ buffer[Len(data) + 1].ok
    /\ data' = Append(data, [filename |-> buffer[Len(data) + 1].originalname,
                             text |-> LegacyDocument(buffer[Len(data) + 1]).rawText])
    /\ pc' = "loop"
    /\ UNCHANGED <<entry, buffer, apiKey, vision, result, thrown, calls, cause, fn, arg, ret>>

\* the catch block: res.status(500).json({ error: error.message })
ErrorResponse(message) == <<[status |-> 500, error |-> <<message>>]>>

\* parsePDFBuffer rejects: the loop is left for the catch block
ParseFileFail ==
    /\ pc = "parsing"
    /\ ~buffer[Len(data) + 1].ok
    /\ thrown' = <<InvalidPdfMessage>>
    /\ result' = ErrorResponse(InvalidPdfMessage)
    /\ pc' = "done"
    /\ UNCHANGED <<entry, buffer, apiKey, data, vision, calls, cause, fn, arg, ret>>

\* getAIExtractor() constructs the AIExtractor: key = apiKey ||
\* process.env.GEMINI_API_KEY || process.env.GOOGLE_API_KEY, no argument given;
\* it throws when neither variable is set
ExtractorNoKey ==
    /\ pc = "loop"
    /\ Len(data) = Len(buffer)
    /\ apiKey = {}
    /\ thrown' = <<NoKeyMessage>>
    /\ result' = ErrorResponse(NoKeyMessage)
    /\ pc' = "done"
    /\ UNCHANGED <<entry, buffer, apiKey, data, vision, calls, cause, fn, arg, ret>>

\* a variant that combines the texts in reverse
CallExtractorReversed ==
    /\ pc = "loop"
    /\ Len(data) = Len(buffer)
    /\ apiKey # {}
    /\ fn' = IF Len(data) = 1 THEN "extractRequirements" ELSE "extractFromMultiplePDFs"
    /\ arg' = <<IF Len(data) = 1 THEN data[1].text ELSE JoinSectionsReversed(data)>>
    /\ calls' = Append(calls, "generateContent")
    /\ pc' = "ai"
    /\ UNCHANGED <<entry, buffer, apiKey, data, vision, result, thrown, cause, ret>>

\* extractRequirements(pdfTexts[0].text) or extractFromMultiplePDFs(pdfTexts),
\* up to the await of this.model.generateContent(prompt)
CallExtractor ==
    /\ pc = "loop"
    /\ Len(data) = Len(buffer)
    /\ apiKey # {}
    /\ fn' = IF Len(data) = 1 THEN "extractRequirements" ELSE "extractFromMultiplePDFs"
    /\ arg' = <<RequestText(data)>>
    /\ calls' = Append(calls, "generateContent")
    /\ pc' = "ai"
    /\ UNCHANGED <<entry, buffer, apiKey, data, vision, result, thrown, cause, ret>>

\* generateContent rejects: throw this.handleGeminiError(error), then the catch block
ExtractorFail ==
    /\ pc = "ai"
    /\ \E err \in RequestErrors :
          /\ cause' = <<err>>
          /\ thrown' = <<AIExtractor_handleGeminiError(err).message>>
          /\ result' = ErrorResponse(AIExtractor_handleGeminiError(err).message)
    /\ pc' = "done"
    /\ UNCHANGED <<entry, buffer, apiKey, data, vision, calls, fn, arg, ret>>

\* the answer holds no {...}: throw new Error('AIからの応答を...')
ExtractorNoJson ==
    /\ pc = "ai"
    /\ \E a \in AiAnswers :
          /\ JsonMatch(a.text) = <<>>
          /\ vision' = <<a.text>>
    /\ thrown' = <<NoJsonMessage>>
    /\ result' = ErrorResponse(NoJsonMessage)
    /\ pc' = "done"
    /\ UNCHANGED <<entry, buffer, apiKey, data, calls, cause, fn, arg, ret>>

\* JSON.parse(jsonMatch[0]) throws: throw new Error(`JSON解析エラー: ${e}`)
ExtractorBadJson ==
    /\ pc = "ai"
    /\ \E a \in AiAnswers, e \in SyntaxErrorTexts :
          /\ JsonMatch(a.text) # <<>>
          /\ a.json = <<>>
          /\ vision' = <<a.text>>
          /\ thrown' = <<JsonErrorMessage(e)>>
          /\ result' = ErrorResponse(JsonErrorMessage(e))
    /\ pc' = "done"
    /\ UNCHANGED <<entry, buffer, apiKey, data, calls, cause, fn, arg, ret>>

\* /api/preview, the answer parses: res.json(requirements)
ExtractorOk ==
    /\ pc = "ai"
    /\ entry = "/api/preview"
    /\ \E a \in AiAnswers :
          /\ JsonMatch(a.text) # <<>>
          /\ a.json # <<>>
          /\ vision' = <<a.text>>
          /\ ret' = a.json
    /\ result' = <<[status |-> 200, error |-> <<>>]>>
    /\ pc' = "done"
    /\ UNCHANGED <<entry, buffer, apiKey, data, thrown, calls, cause, fn, arg>>

\* /api/generate, the answer parses but lacks a property the sheets read:
\* generateRequirementsExcel throws a TypeError, then the catch block
WorkbookFail ==
    /\ pc = "ai"
    /\ entry = "/api/generate"
    /\ \E a \in AiAnswers :
          /\ JsonMatch(a.text) # <<>>
          /\ a.json # <<>>
          /\ MissingProperty(a.json[1]) # <<>>
          /\ vision' = <<a.text>>
          /\ ret' = a.json
          /\ thrown' = <<TypeErrorMessage(MissingProperty(a.json[1])[1])>>
          /\ result' = ErrorResponse(TypeErrorMessage(MissingProperty(a.json[1])[1]))
    /\ pc' = "done"
    /\ UNCHANGED <<entry, buffer, apiKey, data, calls, cause, fn, arg>>

\* /api/generate, the answer parses: the sheets are built and
\* workbook.xlsx.writeBuffer() is awaited
WorkbookWrite ==
    /\ pc = "ai"
    /\ entry = "/api/generate"
    /\ \E a \in AiAnswers :
          /\ JsonMatch(a.text) # <<>>
          /\ a.json # <<>>
          /\ MissingProperty(a.json[1]) = <<>>
          /\ vision' = <<a.text>>
          /\ ret' = a.json
    /\ pc' = "excel"
    /\ UNCHANGED <<entry, buffer, apiKey, data, result, thrown, calls, cause, fn, arg>>

\* writeBuffer resolves: res.send(excelBuffer)
WorkbookSent ==
    /\ pc = "excel"
    /\ result' = <<[status |-> 200, error |-> <<>>]>>
    /\ pc' = "done"
    /\ UNCHANGED <<entry, buffer, apiKey, data, vision, thrown, calls, cause, fn, arg, ret>>

\* writeBuffer rejects: generateRequirementsExcel rejects, then the catch block
WorkbookWriteFail ==
    /\ pc = "excel"
    /\ \E m \in WriteErrors :
          /\ thrown' = <<m>>
          /\ result' = ErrorResponse(m)
    /\ pc' = "done"
    /\ UNCHANGED <<entry, buffer, apiKey, data, vision, calls, cause, fn, arg, ret>>

NextRequest ==
    \/ NoFiles
    \/ HasFiles
    \/ ParseCall
    \/ ParseFile
    \/ ParseFileFail
    \/ ExtractorNoKey
    \/ CallExtractor
    \/ ExtractorFail
    \/ ExtractorNoJson
    \/ ExtractorBadJson
    \/ ExtractorOk
    \/ WorkbookFail
    \/ WorkbookWrite
    \/ WorkbookSent
    \/ WorkbookWriteFail

SpecRequest == InitRequest /\ [][NextRequest]_vars

\* the texts stand in s one after another, from position p on
RECURSIVE C16_InOrder(_, _, _)
C16_InOrder(s, texts, p) ==
    \/ texts = <<>>
    \/ \E q \in p..Len(s) :
          /\ HasAt(s, q, Head(texts))
          /\ C16_InOrder(s, Tail(texts), q + Len(Head(texts)))

\* the positions of the AI call among the calls made so far
C16_AiCalls == {k \in 1..Len(calls) : calls[k] = "generateContent"}

\* C16: in a request with n >= 1 files the AI call is made at most once and only
\* after n parses, the text it is given holds the documents' texts in upload
\* order, and when the parse of a document fails there is no AI call and the
\* request ends with an error response.
C16_JoinThenOneCall ==
    (entry \in {"/api/generate", "/api/preview"} /\ Len(buffer) >= 1) =>
        /\ Cardinality(C16_AiCalls) <= 1
        /\ \A k \in C16_AiCalls :
              /\ k = Len(buffer) + 1
              /\ \A x \in 1..Len(buffer) : calls[x] = "pdf"
              /\ Len(data) = Len(buffer)
              /\ C16_InOrder(arg[1], [x \in 1..Len(buffer) |-> buffer[x].text], 1)
        /\ (\E x \in 1..Len(buffer) : ~buffer[x].ok) =>
              /\ C16_AiCalls = {}
              /\ pc = "done" => result # <<>> /\ result[1].status = 500

\* C16 witness: three files were parsed and then the one AI call was made
C16_Witness ==
    /\ entry = "/api/generate"
    /\ Len(buffer) = 3
    /\ buffer[1].text # buffer[2].text
    /\ calls = <<"pdf", "pdf", "pdf", "generateContent">>
    /\ pc = "done"
    /\ result[1].status = 200

\* C16 witness of the failure case: the second of two files failed to parse and
\* the request ended with status 500 without an AI call
C16_WitnessParseFailure ==
    /\ Len(buffer) = 2
    /\ buffer[1].ok /\ ~buffer[2].ok
    /\ calls = <<"pdf", "pdf">>
    /\ pc = "done"
    /\ result[1].status = 500


====
